---- MODULE Spec2Model ----
(***************************************************************************)
(* A model of the form-to-ticket bridge in src/app.py and src/utils.py:    *)
(* the field mapper and its password resolver, the structured message      *)
(* extractor, the ticket description formatter, the ticket submission      *)
(* orchestrator, and the dispatch of helpdesk events.                      *)
(*                                                                         *)
(* Python text is a sequence of one-character strings, so that strip,      *)
(* lower, split, slicing and substring tests are computed as Python        *)
(* computes them.  A dict is a function whose domain is its key set.       *)
(* None and a JSON number are one-element sequences holding a token that   *)
(* is no character.                                                        *)
(***************************************************************************)
EXTENDS Integers, Sequences, FiniteSets, TLC

VARIABLES
    \* --- map_wordpress_fields ---
    map_pc,          \* "call" before the call, "done" after it returned ("idle": unused)
    form_data,       \* the raw submission
    mapped_data,     \* the value returned
    map_raised,      \* TRUE when the except branch produced the result
    \* --- format_ticket_description_clean / extract_from_structured_message ---
    rt_pc,           \* "format", "extract", "done"
    rt_record,       \* the canonical record given to the formatter
    rt_text,         \* the description text
    rt_extracted,    \* what the extractor read back from rt_text
    \* --- create_repair_ticket_direct ---
    tk_pc,           \* "validate", "contact", "submit", "fallback", "done"
    tk_record,       \* the record given to the orchestrator
    FRESHDESK_CONFIGURED, \* FRESHDESK_DOMAIN and FRESHDESK_API_KEY are both set
    contact_calls,   \* number of calls of create_or_update_contact
    contact_result,  \* what create_or_update_contact returned
    contact_io,      \* what the helpdesk did on the contact search and write
    handed,          \* payloads handed to create_freshdesk_ticket, in order
    posted,          \* payloads actually POSTed to /api/v2/tickets, in order
    answers,         \* what the helpdesk answered to each POST, in order
    tk_result,       \* the value create_repair_ticket_direct returned
    \* --- /webhook/freshdesk ---
    hk_pc,           \* "request", then "done", "verified", "verified_utils" or "invoice_checked"
    WEBHOOK_SECRET,  \* configuration
    NOTIFICATION_EMAIL, \* configuration
    request,         \* the inbound request
    response,        \* the handler's response
    dispatched,      \* handlers and collaborators invoked, in order
    verify_result,   \* result of a direct call of verify_webhook_signature
    invoice_result,  \* result of a direct call of should_create_invoice
    \* --- /webhook/wordpress ---
    wp_pc,           \* "request", then "ticket" (inside create_repair_ticket_direct), "done"
    ALLOWED_ORIGINS, \* configuration: the list of allowed origins
    FLASK_ENV,       \* configuration
    wp_request,      \* the inbound POST: Origin, User-Agent and body
    wp_mapped_data,  \* mapped_data once the handler computed it
    wp_response,     \* the handler's response
    \* --- /api/tickets and /api/tickets/<id> ---
    api_pc,          \* "request", then "done"
    FLASK_DEBUG,     \* the environment variable, "#unset" when absent
    api_request,     \* the inbound request: route and body
    api_fault,       \* str(e) of the exception raised while handling, "" if none
    api_response,    \* the handler's response
    \* --- retry_api_call ---
    retry_pc,        \* "call", "sleep", "done"
    max_retries,     \* argument
    delay,           \* argument
    attempt,         \* the loop variable
    outcomes,        \* what each call of func did, in order
    sleeps,          \* the arguments of time.sleep, in order
    retry_result     \* what retry_api_call returned or raised

mapVars == <<map_pc, form_data, mapped_data, map_raised>>
rtVars == <<rt_pc, rt_record, rt_text, rt_extracted>>
tkVars == <<tk_pc, tk_record, FRESHDESK_CONFIGURED, contact_calls, contact_result,
           contact_io,
            handed, posted, answers, tk_result>>
hkVars == <<hk_pc, WEBHOOK_SECRET, NOTIFICATION_EMAIL, request, response,
            dispatched, verify_result, invoice_result>>
wpVars == <<wp_pc, ALLOWED_ORIGINS, FLASK_ENV, wp_request, wp_mapped_data, wp_response>>
apiVars == <<api_pc, FLASK_DEBUG, api_request, api_fault, api_response>>
retryVars == <<retry_pc, max_retries, delay, attempt, outcomes, sleeps, retry_result>>
vars == <<mapVars, rtVars, tkVars, hkVars, wpVars, apiVars, retryVars>>

-----------------------------------------------------------------------------
(* Python values *)

None == <<"#None">>
Num7 == <<"#7">>                 \* the JSON number 7
NonText == {None, Num7}
Idle == <<"#idle">>              \* a component that is not exercised

IsText(v) == v \notin NonText

\* str(v)
PyStr(v) == IF v = None THEN <<"N","o","n","e">> ELSE IF v = Num7 THEN <<"7">> ELSE v

\* bool(v) for text, None and numbers
Truthy(v) == v # <<>> /\ v # None

\* d.get(k, default)
Get(d, k, default) == IF k \in DOMAIN d THEN d[k] ELSE default

EmptyDict == [k \in {} |-> <<>>]

\* The dicts that lack key, or map it to one of values
Opt(key, values) == {EmptyDict} \cup {(key :> v) : v \in values}

-----------------------------------------------------------------------------
(* Python str methods *)

UpperChars == <<"A","B","C","D","E","F","G","H","I","J","K","L","M","N","O","P","Q","R","S","T","U","V","W","X","Y","Z">>
LowerChars == <<"a","b","c","d","e","f","g","h","i","j","k","l","m","n","o","p","q","r","s","t","u","v","w","x","y","z">>
UpperSet == {UpperChars[i] : i \in 1..26}
LowerSet == {LowerChars[i] : i \in 1..26}
ToLowerChar == [c \in UpperSet |-> LowerChars[CHOOSE i \in 1..26 : UpperChars[i] = c]]
ToUpperChar == [c \in LowerSet |-> UpperChars[CHOOSE i \in 1..26 : LowerChars[i] = c]]
Whitespace == {" ", "\t", "\n", "\r"}

LowerCh(c) == IF c \in UpperSet THEN ToLowerChar[c] ELSE c
UpperCh(c) == IF c \in LowerSet THEN ToUpperChar[c] ELSE c

\* s.lower()
PyLower(s) == [i \in 1..Len(s) |-> LowerCh(s[i])]

\* s.isupper(): some cased character, and no lower-case one
PyIsUpper(s) ==
    /\ \E i \in 1..Len(s) : s[i] \in UpperSet
    /\ \A i \in 1..Len(s) : s[i] \notin LowerSet

\* s.title(): upper case after a non-letter, lower case after a letter
PyTitle(s) ==
    [i \in 1..Len(s) |->
        IF i = 1 \/ s[i - 1] \notin (UpperSet \cup LowerSet)
        THEN UpperCh(s[i]) ELSE LowerCh(s[i])]

RECURSIVE FirstNonWs(_, _)
FirstNonWs(s, i) ==
    IF i > Len(s) \/ s[i] \notin Whitespace THEN i ELSE FirstNonWs(s, i + 1)

RECURSIVE LastNonWs(_, _)
LastNonWs(s, i) ==
    IF i < 1 \/ s[i] \notin Whitespace THEN i ELSE LastNonWs(s, i - 1)

\* s.strip()
PyStrip(s) == SubSeq(s, FirstNonWs(s, 1), LastNonWs(s, Len(s)))

\* s[:n]
Take(s, n) == SubSeq(s, 1, IF Len(s) < n THEN Len(s) ELSE n)

\* s[n:]
Drop(s, n) == SubSeq(s, n + 1, Len(s))

\* sub in s, at position i
MatchAt(sub, s, i) == \A j \in 1..Len(sub) : s[i + j - 1] = sub[j]

\* sub in s
Contains(sub, s) == \E i \in 1..(Len(s) - Len(sub) + 1) : MatchAt(sub, s, i)

\* s.startswith(p)
StartsWith(s, p) == Len(p) <= Len(s) /\ MatchAt(p, s, 1)

\* s.endswith(p)
EndsWith(s, p) == Len(p) <= Len(s) /\ MatchAt(p, s, Len(s) - Len(p) + 1)

\* s.replace(' ', '_')
ReplaceSpace(s) == [i \in 1..Len(s) |-> IF s[i] = " " THEN "_" ELSE s[i]]

\* The positions of character c in s, in increasing order
PositionsOf(c, s) ==
    LET P == {i \in 1..Len(s) : s[i] = c}
    IN  [n \in 1..Cardinality(P) |->
            CHOOSE p \in P : Cardinality({q \in P : q < p}) = n - 1]

\* s.split(c): the pieces between the occurrences of c
PySplit(s, c) ==
    LET pos == PositionsOf(c, s)
        k == Len(pos)
    IN  [n \in 1..(k + 1) |->
            SubSeq(s, IF n = 1 THEN 1 ELSE pos[n - 1] + 1,
                      IF n = k + 1 THEN Len(s) ELSE pos[n] - 1)]

\* s.split(':', 1): <<before, after>> the first colon (s holds one)
SplitFirstColon(s) ==
    LET p == CHOOSE i \in 1..Len(s) : s[i] = ":" /\ \A j \in 1..(i - 1) : s[j] # ":"
    IN  <<SubSeq(s, 1, p - 1), SubSeq(s, p + 1, Len(s))>>

\* sep.join(parts)
RECURSIVE PyJoin(_, _)
PyJoin(sep, parts) ==
    IF parts = <<>> THEN <<>>
    ELSE IF Len(parts) = 1 THEN parts[1]
    ELSE parts[1] \o sep \o PyJoin(sep, Tail(parts))

\* n copies of character c
Rep(c, n) == [i \in 1..n |-> c]

-----------------------------------------------------------------------------
(* format_ticket_description_clean *)

\* d with key k set to v
Put(d, k, v) == (k :> v) @@ d

\* d without key k
Pop(d, k) == [x \in DOMAIN d \ {k} |-> d[x]]

NotProvided == <<"N","o","t"," ","p","r","o","v","i","d","e","d">>
NotSpecified == <<"N","o","t"," ","s","p","e","c","i","f","i","e","d">>

\* get_value that returns the text as it stands, blanks included
get_value_untrimmed(form, key, default) ==
    LET value == Get(form, key, None)
    IN  IF value = None THEN default
        ELSE IF PyStr(value) # <<>> THEN PyStr(value) ELSE default

\* The nested get_value(key, default)
get_value(form, key, default) ==
    LET value == Get(form, key, None)
    IN  IF value = None THEN default
        ELSE LET s == PyStrip(PyStr(value))
             IN  IF s # <<>> THEN s ELSE default

NL == <<"\n">>

format_ticket_description_clean(form) ==
    LET accessories == get_value(form, "accessories", <<"N","o","n","e"," ","s","p","e","c","i","f","i","e","d">>)
        comments == get_value(form, "additional_comments", <<>>)
        profile_name == get_value(form, "user_profile_name", <<>>)
        password == get_value(form, "user_profile_password", <<>>)
        internal_id == get_value(form, "internal_ticket_id", <<>>)
    IN  <<"=","=","="," ","E","Q","U","I","P","M","E","N","T"," ","R","E","P","A","I","R"," ","R","E","Q","U","E","S","T"," ","=","=","=","\n","\n">>
        \o <<"C","U","S","T","O","M","E","R"," ","D","E","T","A","I","L","S",":","\n">>
        \o <<"C","o","n","t","a","c","t"," ","N","a","m","e",":"," ">> \o get_value(form, "contact_name", NotProvided) \o NL
        \o <<"B","u","s","i","n","e","s","s"," ","N","a","m","e",":"," ">> \o get_value(form, "business_name", NotProvided) \o NL
        \o <<"P","h","o","n","e",":"," ">> \o get_value(form, "contact_phone", NotProvided) \o NL
        \o <<"E","m","a","i","l",":"," ">> \o get_value(form, "contact_email", NotProvided) \o NL \o NL
        \o <<"E","Q","U","I","P","M","E","N","T"," ","I","N","F","O","R","M","A","T","I","O","N",":","\n">>
        \o <<"E","q","u","i","p","m","e","n","t"," ","T","y","p","e",":"," ">> \o get_value(form, "equipment_type", NotSpecified) \o NL
        \o <<"B","r","a","n","d",":"," ">> \o get_value(form, "equipment_brand", NotSpecified) \o NL
        \o <<"M","o","d","e","l",":"," ">> \o get_value(form, "equipment_model", NotSpecified) \o NL
        \o <<"S","e","r","i","a","l"," ","N","u","m","b","e","r",":"," ">> \o get_value(form, "serial_number", NotProvided) \o NL \o NL
        \o <<"S","E","R","V","I","C","E"," ","D","E","T","A","I","L","S",":","\n">>
        \o <<"S","t","o","r","e"," ","L","o","c","a","t","i","o","n",":"," ">> \o get_value(form, "store_location", NotSpecified) \o NL
        \o <<"P","r","e","f","e","r","r","e","d"," ","D","a","t","e",":"," ">> \o get_value(form, "repair_date", NotSpecified) \o NL
        \o <<"P","r","e","f","e","r","r","e","d"," ","T","i","m","e",":"," ">> \o get_value(form, "repair_time", NotSpecified) \o NL \o NL
        \o <<"F","A","U","L","T"," ","D","E","S","C","R","I","P","T","I","O","N",":","\n">>
        \o get_value(form, "fault_description", <<"N","o"," ","d","e","s","c","r","i","p","t","i","o","n"," ","p","r","o","v","i","d","e","d">>) \o NL \o NL
        \o (IF accessories # <<"N","o","n","e"," ","s","p","e","c","i","f","i","e","d">>
            THEN <<"A","C","C","E","S","S","O","R","I","E","S"," ","I","N","C","L","U","D","E","D",":","\n">> \o accessories \o NL \o NL ELSE <<>>)
        \o (IF comments # <<>>
            THEN <<"A","D","D","I","T","I","O","N","A","L"," ","C","O","M","M","E","N","T","S",":","\n">> \o comments \o NL \o NL ELSE <<>>)
        \o (IF profile_name # <<>> \/ password # <<>>
            THEN <<"U","S","E","R"," ","A","C","C","O","U","N","T",":","\n">>
                 \o (IF profile_name # <<>>
                     THEN <<"P","r","o","f","i","l","e"," ","N","a","m","e",":"," ">> \o profile_name \o NL ELSE <<>>)
                 \o (IF password # <<>>
                     THEN <<"P","a","s","s","w","o","r","d",":"," ">> \o password \o NL ELSE <<>>)
                 \o NL
            ELSE <<>>)
        \o (IF internal_id # <<>>
            THEN <<"I","N","T","E","R","N","A","L"," ","R","E","F","E","R","E","N","C","E",":","\n","I","n","t","e","r","n","a","l"," ","T","i","c","k","e","t"," ","I","D",":"," ">> \o internal_id \o NL \o NL
            ELSE <<>>)
        \o <<"=","=","="," ","E","N","D"," ","O","F"," ","R","E","P","A","I","R"," ","R","E","Q","U","E","S","T"," ","=","=","=">>

-----------------------------------------------------------------------------
(* extract_from_structured_message *)

\* field_mappings with the status line `Password Provided:` read as a password
field_mappings_with_status ==
    << <<<<"c","o","n","t","a","c","t","_","n","a","m","e">>, "contact_name">>,
       <<<<"b","u","s","i","n","e","s","s","_","n","a","m","e">>, "business_name">>,
       <<<<"p","h","o","n","e">>, "contact_phone">>,
       <<<<"e","m","a","i","l">>, "contact_email">>,
       <<<<"e","q","u","i","p","m","e","n","t","_","t","y","p","e">>, "equipment_type">>,
       <<<<"b","r","a","n","d">>, "equipment_brand">>,
       <<<<"m","o","d","e","l">>, "equipment_model">>,
       <<<<"s","e","r","i","a","l","_","n","u","m","b","e","r">>, "serial_number">>,
       <<<<"s","t","o","r","e","_","l","o","c","a","t","i","o","n">>, "store_location">>,
       <<<<"p","r","e","f","e","r","r","e","d","_","d","a","t","e">>, "repair_date">>,
       <<<<"p","r","e","f","e","r","r","e","d","_","t","i","m","e">>, "repair_time">>,
       <<<<"t","i","c","k","e","t","_","i","d">>, "internal_ticket_id">>,
       <<<<"i","n","t","e","r","n","a","l","_","t","i","c","k","e","t","_","i","d">>, "internal_ticket_id">>,
       <<<<"p","r","o","f","i","l","e","_","n","a","m","e">>, "user_profile_name">>,
       <<<<"p","a","s","s","w","o","r","d">>, "user_profile_password">>,
       <<<<"u","s","e","r","_","p","r","o","f","i","l","e","_","p","a","s","s","w","o","r","d">>, "user_profile_password">>,
       <<<<"p","a","s","s","w","o","r","d","_","p","r","o","v","i","d","e","d">>, "user_profile_password">> >>

\* field_mappings: the key read from a line, and the internal field it sets
field_mappings ==
    << <<<<"c","o","n","t","a","c","t","_","n","a","m","e">>, "contact_name">>,
       <<<<"b","u","s","i","n","e","s","s","_","n","a","m","e">>, "business_name">>,
       <<<<"p","h","o","n","e">>, "contact_phone">>,
       <<<<"e","m","a","i","l">>, "contact_email">>,
       <<<<"e","q","u","i","p","m","e","n","t","_","t","y","p","e">>, "equipment_type">>,
       <<<<"b","r","a","n","d">>, "equipment_brand">>,
       <<<<"m","o","d","e","l">>, "equipment_model">>,
       <<<<"s","e","r","i","a","l","_","n","u","m","b","e","r">>, "serial_number">>,
       <<<<"s","t","o","r","e","_","l","o","c","a","t","i","o","n">>, "store_location">>,
       <<<<"p","r","e","f","e","r","r","e","d","_","d","a","t","e">>, "repair_date">>,
       <<<<"p","r","e","f","e","r","r","e","d","_","t","i","m","e">>, "repair_time">>,
       <<<<"t","i","c","k","e","t","_","i","d">>, "internal_ticket_id">>,
       <<<<"i","n","t","e","r","n","a","l","_","t","i","c","k","e","t","_","i","d">>, "internal_ticket_id">>,
       <<<<"p","r","o","f","i","l","e","_","n","a","m","e">>, "user_profile_name">>,
       <<<<"p","a","s","s","w","o","r","d">>, "user_profile_password">>,
       <<<<"u","s","e","r","_","p","r","o","f","i","l","e","_","p","a","s","s","w","o","r","d">>, "user_profile_password">> >>

InFieldMappings(key) == \E i \in 1..Len(field_mappings) : field_mappings[i][1] = key
FieldMappingOf(key) ==
    field_mappings[CHOOSE i \in 1..Len(field_mappings) : field_mappings[i][1] = key][2]

\* extracted_data[field] = line, or += sep + line when the field is set
Accumulate(data, field, sep, line) ==
    IF field \notin DOMAIN data THEN Put(data, field, line)
    ELSE Put(data, field, data[field] \o sep \o line)

\* One pass of the loop body (lines 405-467) over a raw line:
\* <<current_section, extracted_data>> after it
ExtractLine(raw, current_section, data) ==
    LET line == PyStrip(raw)
    IN  IF line = <<>> THEN <<current_section, data>>
        ELSE IF EndsWith(line, <<":">>) /\ PyIsUpper(line)
        THEN <<ReplaceSpace(PyLower(Take(line, Len(line) - 1))), data>>
        ELSE IF Contains(<<":">>, line) /\ Truthy(current_section)
        THEN LET kv == SplitFirstColon(line)
                 key == ReplaceSpace(PyLower(PyStrip(kv[1])))
                 value == PyStrip(kv[2])
             IN  IF InFieldMappings(key) /\ value # <<>> /\ value # NotProvided
                 THEN <<current_section, Put(data, FieldMappingOf(key), value)>>
                 ELSE <<current_section, data>>
        ELSE IF current_section = <<"f","a","u","l","t","_","d","e","s","c","r","i","p","t","i","o","n">> /\ ~EndsWith(line, <<":">>)
        THEN <<current_section, Accumulate(data, "fault_description", <<" ">>, line)>>
        ELSE IF current_section = <<"a","d","d","i","t","i","o","n","a","l","_","c","o","m","m","e","n","t","s">> /\ ~EndsWith(line, <<":">>)
        THEN <<current_section, Accumulate(data, "additional_comments", <<" ">>, line)>>
        ELSE IF current_section = <<"a","c","c","e","s","s","o","r","i","e","s","_","i","n","c","l","u","d","e","d">> /\ ~EndsWith(line, <<":">>)
        THEN <<current_section, Accumulate(data, "accessories", <<","," ">>, line)>>
        ELSE <<current_section, data>>

\* The loop of lines 405-467.  Its state is <<i, current_section,
\* extracted_data>>: the index of the next line, and the two variables the
\* body reads and writes.
RECURSIVE ExtractLoop(_, _)
ExtractLoop(lines, state) ==
    IF state[1] > Len(lines) THEN state[3]
    ELSE ExtractLoop(lines,
                     <<state[1] + 1>>
                     \o ExtractLine(lines[state[1]], state[2], state[3]))

extract_from_structured_message(message) ==
    ExtractLoop(PySplit(message, "\n"), <<1, None, EmptyDict>>)

-----------------------------------------------------------------------------
(* find_password_in_message, extract_fault_description_from_message *)

password_patterns ==
    <<<<"p","a","s","s","w","o","r","d",":">>, <<"u","s","e","r"," ","p","r","o","f","i","l","e"," ","p","a","s","s","w","o","r","d",":">>, <<"p","r","o","f","i","l","e"," ","p","a","s","s","w","o","r","d",":">>,
      <<"a","c","c","o","u","n","t"," ","p","a","s","s","w","o","r","d",":">>, <<"u","s","e","r"," ","p","a","s","s","w","o","r","d",":">>>>

StatusTokens == {<<"y","e","s">>, <<"n","o">>, <<"p","r","o","v","i","d","e","d">>, <<"n","o","t"," ","p","r","o","v","i","d","e","d">>}
MessageStatusTokens == StatusTokens \cup {<<"t","r","u","e">>, <<"f","a","l","s","e">>}
MinPasswordLen == 2

\* The value find_password_in_message takes from one line, or None
PasswordInLine(raw) ==
    LET line == PyStrip(raw)
    IN  IF /\ \E p \in 1..Len(password_patterns) :
                  Contains(password_patterns[p], PyLower(line))
           /\ Contains(<<":">>, line)
        THEN LET password_part == PyStrip(SplitFirstColon(line)[2])
             IN  IF /\ password_part # <<>>
                    /\ PyLower(password_part) \notin MessageStatusTokens
                    /\ Len(password_part) > MinPasswordLen
                 THEN password_part ELSE None
        ELSE None

\* find_password_in_message(message): the value of the first line that has one
find_password_in_message(message) ==
    LET lines == PySplit(message, "\n")
        hits == {i \in 1..Len(lines) : PasswordInLine(lines[i]) # None}
    IN  IF hits = {} THEN None
        ELSE PasswordInLine(lines[CHOOSE i \in hits : \A j \in hits : i <= j])

FaultHeader == <<"F","A","U","L","T"," ","D","E","S","C","R","I","P","T","I","O","N",":">>

\* The loop of extract_fault_description_from_message, with its state
\* <<i, capture, fault_lines>>: the fault lines collected
RECURSIVE FaultLoop(_, _)
FaultLoop(lines, state) ==
    IF state[1] > Len(lines) THEN state[3]
    ELSE LET line == PyStrip(lines[state[1]])
             capture == state[2]
             fault_lines == state[3]
         IN  IF Contains(FaultHeader, line)
             THEN LET desc_part == PyStrip(SplitFirstColon(line)[2])
                  IN  FaultLoop(lines,
                                <<state[1] + 1, TRUE,
                                  IF desc_part # <<>> THEN Append(fault_lines, desc_part)
                                  ELSE fault_lines>>)
             ELSE IF capture /\ line # <<>> /\ ~PyIsUpper(line) /\ ~Contains(<<":">>, line)
             THEN FaultLoop(lines, <<state[1] + 1, capture, Append(fault_lines, line)>>)
             ELSE IF capture /\ (PyIsUpper(line) \/ Contains(<<"=","=","=">>, line))
             THEN fault_lines
             ELSE FaultLoop(lines, <<state[1] + 1, capture, fault_lines>>)

\* extract_fault_description_from_message(message), or None
extract_fault_description_from_message(message) ==
    IF ~Contains(FaultHeader, message) THEN None
    ELSE LET fault_lines == FaultLoop(PySplit(message, "\n"), <<1, FALSE, <<>>>>)
         IN  IF fault_lines # <<>> THEN PyJoin(<<" ">>, fault_lines) ELSE None

-----------------------------------------------------------------------------
(* map_wordpress_fields *)

Marker == <<"=","=","="," ","E","Q","U","I","P","M","E","N","T"," ","R","E","P","A","I","R"," ","R","E","Q","U","E","S","T"," ","=","=","=">>

\* field_mapping: WordPress field -> internal field, in the dict's order
field_mapping ==
    << <<"email", "contact_email">>, <<"name", "contact_name">>,
       <<"phone", "contact_phone">>, <<"company", "business_name">>,
       <<"subject", "subject">>, <<"message", "full_message">>,
       <<"priority", "priority">>, <<"ticket_type", "ticket_type">>,
       <<"tags", "tags">>,
       <<"user_profile_password", "user_profile_password">>,
       <<"password", "user_profile_password">> >>

custom_field_mapping ==
    << <<"equipment_brand", "equipment_brand">>, <<"equipment_model", "equipment_model">>,
       <<"serial_number", "serial_number">>, <<"store_location", "store_location">>,
       <<"repair_date", "repair_date">>, <<"repair_time", "repair_time">>,
       <<"internal_ticket_id", "internal_ticket_id">>,
       <<"user_profile_password", "user_profile_password">> >>

\* password_sources with the custom fields read before the top-level fields
password_sources_custom_first ==
    << <<"user_profile_password", "custom_fields">>, <<"password", "custom_fields">>,
       <<"user_profile_password", "form_data">>, <<"password", "form_data">>,
       <<"user_password", "form_data">>, <<"profile_password", "form_data">> >>

\* password_sources: field name and the mapping it is read from, in priority order
password_sources ==
    << <<"user_profile_password", "form_data">>, <<"password", "form_data">>,
       <<"user_password", "form_data">>, <<"profile_password", "form_data">>,
       <<"user_profile_password", "custom_fields">>, <<"password", "custom_fields">> >>

\* bool(source[key]); the tags value is a list
TruthyAt(source, key) == IF key = "tags" THEN source[key] # <<>> ELSE Truthy(source[key])

\* for wp_field, internal_field in mapping.items():
\*     if wp_field in source and source[wp_field]: data[internal_field] = source[wp_field]
\* with the loop's state <<i, data>>: the index of the next item, and the dict
RECURSIVE ApplyMapping(_, _, _)
ApplyMapping(mapping, source, state) ==
    IF state[1] > Len(mapping) THEN state[2]
    ELSE LET wp_field == mapping[state[1]][1]
             internal_field == mapping[state[1]][2]
         IN  ApplyMapping(mapping, source,
                          <<state[1] + 1,
                            IF wp_field \in DOMAIN source /\ TruthyAt(source, wp_field)
                            THEN Put(state[2], internal_field, source[wp_field])
                            ELSE state[2]>>)

\* The candidate of password_sources[i] after str().strip(), or None when the
\* field is absent, falsy, empty after trimming or a status token
PasswordCandidate(form, custom_fields, i) ==
    LET field_name == password_sources[i][1]
        source_data == IF password_sources[i][2] = "form_data" THEN form ELSE custom_fields
    IN  IF field_name \in DOMAIN source_data /\ Truthy(source_data[field_name])
        THEN LET password_value == PyStrip(PyStr(source_data[field_name]))
             IN  IF password_value # <<>> /\ PyLower(password_value) \notin StatusTokens
                 THEN password_value ELSE None
        ELSE None

\* The loop over password_sources (lines 347-355): the first candidate, or None
ResolvePassword(form, custom_fields) ==
    LET hits == {i \in 1..Len(password_sources) :
                    PasswordCandidate(form, custom_fields, i) # None}
    IN  IF hits = {} THEN None
        ELSE PasswordCandidate(form, custom_fields,
                               CHOOSE i \in hits : \A j \in hits : i <= j)

Raised == <<"#raise">>

EquipmentTags == {<<"d","e","s","k","t","o","p">>, <<"l","a","p","t","o","p">>, <<"p","r","i","n","t","e","r">>, <<"s","e","r","v","e","r">>}

\* The for/else over tags (lines 372-378): the equipment type, or "raise"
\* where a tag has no lower()
RECURSIVE EquipmentFromTags(_, _)
EquipmentFromTags(tags, i) ==
    IF i > Len(tags) THEN <<"E","q","u","i","p","m","e","n","t">>
    ELSE IF ~IsText(tags[i]) THEN Raised
    ELSE IF PyLower(tags[i]) \in EquipmentTags THEN PyTitle(tags[i])
    ELSE EquipmentFromTags(tags, i + 1)

\* The three steps with the values of the structured message written last
MapFields_message_last(form) ==
    LET message == Get(form, "message", <<>>)
        seeded == IF Contains(Marker, message)
                  THEN extract_from_structured_message(message) ELSE EmptyDict
        direct == ApplyMapping(field_mapping, form, <<1, EmptyDict>>)
        custom_fields == Get(form, "custom_fields", EmptyDict)
    IN  seeded @@ (IF custom_fields # EmptyDict
                   THEN ApplyMapping(custom_field_mapping, custom_fields, <<1, direct>>)
                   ELSE direct)

\* Lines 286-333: the record seeded from the structured message and overlaid
\* with the top-level fields and the custom fields
MapFields(form) ==
    LET message == Get(form, "message", <<>>)
        seeded == IF Contains(Marker, message)
                  THEN extract_from_structured_message(message) ELSE EmptyDict
        direct == ApplyMapping(field_mapping, form, <<1, seeded>>)
        custom_fields == Get(form, "custom_fields", EmptyDict)
    IN  IF custom_fields # EmptyDict
        THEN ApplyMapping(custom_field_mapping, custom_fields, <<1, direct>>)
        ELSE direct

\* The password step with the message scanned before the fields are looked at
MapPassword_message_first(form, data) ==
    LET password_value == ResolvePassword(form, Get(form, "custom_fields", EmptyDict))
        found == IF "full_message" \in DOMAIN data
                 THEN find_password_in_message(data["full_message"]) ELSE None
    IN  IF found # None THEN Put(data, "user_profile_password", found)
        ELSE IF password_value # None
        THEN Put(data, "user_profile_password", password_value)
        ELSE data

\* Lines 335-367: the password given its final value
MapPassword(form, data) ==
    LET password_value == ResolvePassword(form, Get(form, "custom_fields", EmptyDict))
    IN  IF password_value # None
        THEN Put(data, "user_profile_password", password_value)
        ELSE IF "full_message" \in DOMAIN data
        THEN LET found == find_password_in_message(data["full_message"])
             IN  IF found # None THEN Put(data, "user_profile_password", found) ELSE data
        ELSE data

\* Lines 380-384: the fault description read from the message when none is set
MapFault(data) ==
    IF "fault_description" \notin DOMAIN data /\ "full_message" \in DOMAIN data
    THEN LET fault_desc == extract_fault_description_from_message(data["full_message"])
         IN  IF fault_desc # None THEN Put(data, "fault_description", fault_desc) ELSE data
    ELSE data

\* TRUE when the try block of map_wordpress_fields raises: the message is no
\* text, or the scan of tags meets a tag that is no text
MapRaises(form) ==
    \/ ~IsText(Get(form, "message", <<>>))
    \/ /\ "equipment_type" \notin DOMAIN MapFields(form)
       /\ EquipmentFromTags(Get(form, "tags", <<>>), 1) = Raised

\* map_wordpress_fields with an except branch that returns an empty dict
map_wordpress_fields_empty_on_error(form) ==
    IF MapRaises(form) THEN EmptyDict
    ELSE LET data == MapPassword(form, MapFields(form))
             typed == IF "equipment_type" \notin DOMAIN data
                      THEN Put(data, "equipment_type",
                               EquipmentFromTags(Get(form, "tags", <<>>), 1))
                      ELSE data
         IN  MapFault(typed)

\* map_wordpress_fields(form_data)
map_wordpress_fields(form) ==
    IF MapRaises(form) THEN form
    ELSE LET data == MapPassword(form, MapFields(form))
             typed == IF "equipment_type" \notin DOMAIN data
                      THEN Put(data, "equipment_type",
                               EquipmentFromTags(Get(form, "tags", <<>>), 1))
                      ELSE data
         IN  MapFault(typed)

-----------------------------------------------------------------------------
(* create_repair_ticket_direct, create_or_update_contact, create_freshdesk_ticket *)

SubjectLimit == 100
NameLimit == 50
PhoneLimit == 20

\* str(form_data.get(key, default)).strip()
CleanField(form, key, default) == PyStrip(PyStr(Get(form, key, default)))

tk_equipment(form) == CleanField(form, "equipment_type", <<"E","q","u","i","p","m","e","n","t">>)
tk_brand(form) == CleanField(form, "equipment_brand", <<>>)
tk_customer(form) == CleanField(form, "contact_name", <<"C","u","s","t","o","m","e","r">>)
tk_internal_id(form) == CleanField(form, "internal_ticket_id", <<>>)
tk_email(form) == CleanField(form, "contact_email", <<>>)
tk_phone(form) == CleanField(form, "contact_phone", <<>>)

\* The subject before truncation (lines 570-578)
tk_subject(form) ==
    LET equipment == tk_equipment(form)
        brand == tk_brand(form)
        internal_id == tk_internal_id(form)
    IN  PyJoin(<<" ">>,
               <<IF equipment # <<>> THEN equipment ELSE <<"E","q","u","i","p","m","e","n","t">>>>
               \o (IF brand # <<>> THEN <<brand>> ELSE <<>>)
               \o <<<<"-"," ">> \o tk_customer(form)>>
               \o (IF internal_id # <<>>
                   THEN <<<<"(","R","e","f",":"," ">> \o internal_id \o <<")">>>> ELSE <<>>))

\* The subject passed on untruncated
TruncateSubject_none(subject) == subject

\* subject[:100]
TruncateSubject(subject) == Take(subject, SubjectLimit)

\* ticket_data_v1 (lines 593-613)
ticket_data_v1(form) ==
    LET equipment == tk_equipment(form)
        phone == tk_phone(form)
    IN  [subject |-> TruncateSubject(tk_subject(form)),
         description |-> format_ticket_description_clean(form),
         email |-> tk_email(form),
         name |-> Take(tk_customer(form), NameLimit),
         priority |-> 3,
         status |-> 2,
         source |-> 7,
         type |-> "Incident",
         tags |-> <<<<"e","q","u","i","p","m","e","n","t","_","r","e","p","a","i","r">>, <<"w","o","r","d","p","r","e","s","s">>, <<"1","c","y","b","e","r">>,
                    IF equipment # <<>> THEN PyLower(equipment) ELSE <<"e","q","u","i","p","m","e","n","t">>,
                    ReplaceSpace(PyLower(PyStr(Get(form, "store_location",
                                                   <<"u","n","k","n","o","w","n">>))))>>]
        @@ (IF phone # <<>> THEN ("phone" :> Take(phone, PhoneLimit)) ELSE EmptyDict)

\* ticket_data_v2 with the email left in
ticket_data_v2_keeping_email(v1, contact_id) ==
    Pop(Pop(Put(v1, "requester_id", contact_id), "name"), "phone")

\* ticket_data_v2 with the phone left in
ticket_data_v2_keeping_phone(v1, contact_id) ==
    Pop(Pop(Put(v1, "requester_id", contact_id), "email"), "name")

\* ticket_data_v2 (lines 632-638): a copy of v1 with the requester identity
\* replaced by the contact id
ticket_data_v2(v1, contact_id) ==
    Pop(Pop(Pop(Put(v1, "requester_id", contact_id), "email"), "name"), "phone")

\* The guard of the fallback without the test of the first result
FallbackTaken_ignoring_success(result, contact) ==
    /\ contact.some /\ contact.json # EmptyDict
    /\ "id" \in DOMAIN contact.json /\ contact.json["id"] # 0

\* The fallback attempted whenever a contact id is known and the first
\* attempt was made
FallbackTaken_without_failure(result, contact) ==
    /\ contact.some /\ contact.json # EmptyDict
    /\ "id" \in DOMAIN contact.json /\ contact.json["id"] # 0
    /\ result.error # "#pending"

\* The guard of the fallback (lines 630 and 633)
FallbackTaken(result, contact) ==
    /\ ~result.success
    /\ contact.some /\ contact.json # EmptyDict          \* contact_result is truthy
    /\ "id" \in DOMAIN contact.json /\ contact.json["id"] # 0

\* What create_or_update_contact returns: None, or the JSON the helpdesk answered
NoContact == [some |-> FALSE, json |-> EmptyDict]
SomeContact(json) == [some |-> TRUE, json |-> json]

\* The JSON bodies the helpdesk may answer to a contact write
ContactAnswers == {EmptyDict, ("name" :> <<"J","a","n","e">>), ("id" :> 42) @@ ("name" :> <<"J","a","n","e">>)}

\* What the helpdesk may do on the contact search (GET ?email=, timeout=30):
\* the request raises or times out, or it answers with a hit or without one
ContactSearches == {"raise", "timeout", "found", "none"}
SearchFailures == {"raise", "timeout"}

\* create_or_update_contact returning the answer's JSON whatever its status
create_or_update_contact_any_status(contact_data, search, write) ==
    IF ~Truthy(contact_data.email) THEN NoContact
    ELSE IF search \in SearchFailures \/ write.raises THEN NoContact
    ELSE SomeContact(write.json)

\* create_or_update_contact (lines 912-944), given what the helpdesk does:
\* the search and the write each raise or answer
create_or_update_contact(contact_data, search, write) ==
    IF ~Truthy(contact_data.email) THEN NoContact
    ELSE IF search \in SearchFailures \/ write.raises THEN NoContact
    ELSE IF write.status \in {200, 201} THEN SomeContact(write.json)
    ELSE NoContact

\* What the helpdesk may do on a contact write (PUT after a hit, POST otherwise)
ContactWrites ==
    {[raises |-> TRUE, status |-> 0, json |-> EmptyDict]}
    \cup {[raises |-> FALSE, status |-> s, json |-> j] :
             s \in {200, 201, 400}, j \in ContactAnswers}

\* No contact write went out
NoWrite == [raises |-> FALSE, status |-> 0, json |-> EmptyDict]

\* No contact request went out
NotAsked == [search |-> "#pending", write |-> NoWrite]

NoResult == [success |-> FALSE, error |-> "#pending", ticket_id |-> 0]
Failure(msg) == [success |-> FALSE, error |-> msg, ticket_id |-> 0]
Success(id) == [success |-> TRUE, error |-> "", ticket_id |-> id]

\* What the helpdesk may do on POST /api/v2/tickets
TicketAnswers == {"201", "400", "500", "Timeout", "ConnectionError", "TooManyRedirects"}

\* str(e) of the exceptions requests raises besides Timeout and ConnectionError
RequestFaults == {"TooManyRedirects"}

\* The local guards of create_freshdesk_ticket (lines 840-867): the failure
\* returned without a request, or NoResult when the request goes out
LocalRefusal(configured, ticket_data) ==
    IF ~configured THEN Failure("Freshdesk configuration incomplete")
    ELSE IF "email" \notin DOMAIN ticket_data \/ ~Truthy(ticket_data["email"])
    THEN Failure("Email field is empty before sending to Freshdesk")
    ELSE NoResult

\* The result create_freshdesk_ticket makes of the helpdesk's answer (lines 869-909)
ResultOfAnswer(answer) ==
    IF answer = "201" THEN Success(1001)
    ELSE IF answer = "Timeout" THEN Failure("Request timeout")
    ELSE IF answer = "ConnectionError" THEN Failure("Connection error")
    ELSE IF answer \in RequestFaults THEN Failure("Unknown error: " \o answer)
    ELSE Failure("HTTP " \o answer)

\* The validation without the test of the email
Validate_email_unchecked(form) ==
    IF tk_customer(form) = <<>> THEN Failure("Customer name is required")
    ELSE NoResult

\* Lines 546-568: the validation of create_repair_ticket_direct; NoResult when
\* the record passes
Validate(form) ==
    IF tk_email(form) = <<>> THEN Failure("Email is required")
    ELSE IF tk_customer(form) = <<>> THEN Failure("Customer name is required")
    ELSE NoResult

LongLen == 101

TkRecords ==
        {e @@ n @@ t @@ b @@ i @@ p :
            e \in Opt("contact_email", {<<>>, <<" "," ">>, <<" ","a","@","b",".","c","o"," ">>}),
            n \in Opt("contact_name", {<<>>, <<" ">>, <<"J","a","n","e"," ","D","o","e">>, Rep("n", LongLen)}),
            t \in Opt("equipment_type", {<<>>, <<"L","a","p","t","o","p">>, Rep("E", LongLen)}),
            b \in Opt("equipment_brand", {<<"H","P">>}),
            i \in Opt("internal_ticket_id", {<<"T","-","9">>}),
            p \in Opt("contact_phone", {<<"+","6","1"," ","4","0","0"," ","1","1","1"," ","2","2","2"," ","e","x","t","."," ","1","2","3","4","5">>})}

TkIdle ==
    /\ tk_pc = "idle"
    /\ tk_record = EmptyDict
    /\ FRESHDESK_CONFIGURED = FALSE
    /\ contact_calls = 0
    /\ contact_result = NoContact
    /\ contact_io = NotAsked
    /\ handed = <<>>
    /\ posted = <<>>
    /\ answers = <<>>
    /\ tk_result = NoResult

TkInit ==
    /\ tk_pc = "validate"
    /\ tk_record \in TkRecords
    /\ FRESHDESK_CONFIGURED \in BOOLEAN
    /\ contact_calls = 0
    /\ contact_result = NoContact
    /\ contact_io = NotAsked
    /\ handed = <<>>
    /\ posted = <<>>
    /\ answers = <<>>
    /\ tk_result = NoResult

\* Lines 546-568: extract the fields and reject an empty email or name
TkValidate ==
    /\ tk_pc = "validate"
    /\ LET v == Validate(tk_record)
       IN  IF v = NoResult
           THEN tk_pc' = "contact" /\ UNCHANGED tk_result
           ELSE tk_pc' = "done" /\ tk_result' = v
    /\ UNCHANGED <<tk_record, FRESHDESK_CONFIGURED, contact_calls, contact_result,
                   contact_io, handed, posted, answers>>
    /\ UNCHANGED <<mapVars, rtVars, hkVars, wpVars, apiVars, retryVars>>

\* Lines 581-591: contact resolution, whatever the helpdesk does
TkContact ==
    /\ tk_pc = "contact"
    /\ \E search \in ContactSearches, write \in ContactWrites :
          /\ contact_io' = [search |-> search,
                            write |-> IF search \in SearchFailures
                                      THEN NoWrite ELSE write]
          /\ contact_result' = create_or_update_contact(
                 [name |-> tk_customer(tk_record), email |-> tk_email(tk_record)],
                 search, write)
    /\ contact_calls' = contact_calls + 1
    /\ tk_pc' = "submit"
    /\ UNCHANGED <<tk_record, FRESHDESK_CONFIGURED, handed, posted, answers, tk_result>>
    /\ UNCHANGED <<mapVars, rtVars, hkVars, wpVars, apiVars, retryVars>>

\* create_freshdesk_ticket(ticket_data) with the helpdesk answering `answer`
\* if asked: the primed handed, posted, answers and tk_result
SubmitTicket(ticket_data, answer) ==
    LET refusal == LocalRefusal(FRESHDESK_CONFIGURED, ticket_data)
    IN  /\ handed' = Append(handed, ticket_data)
        /\ IF refusal # NoResult
           THEN /\ tk_result' = refusal
                /\ UNCHANGED <<posted, answers>>
           ELSE /\ posted' = Append(posted, ticket_data)
                /\ answers' = Append(answers, answer)
                /\ tk_result' = ResultOfAnswer(answer)

\* Lines 593-627: build ticket_data_v1 and make the first attempt
TkSubmit ==
    /\ tk_pc = "submit"
    /\ \E answer \in TicketAnswers : SubmitTicket(ticket_data_v1(tk_record), answer)
    /\ tk_pc' = "fallback"
    /\ UNCHANGED <<tk_record, FRESHDESK_CONFIGURED, contact_calls, contact_result,
                   contact_io>>
    /\ UNCHANGED <<mapVars, rtVars, hkVars, wpVars, apiVars, retryVars>>

\* Lines 629-643: the requester-id attempt if the first failed and a contact
\* id is known; then return result
TkFallback ==
    /\ tk_pc = "fallback"
    /\ IF FallbackTaken(tk_result, contact_result)
       THEN \E answer \in TicketAnswers :
               SubmitTicket(ticket_data_v2(handed[1], contact_result.json["id"]), answer)
       ELSE UNCHANGED <<handed, posted, answers, tk_result>>
    /\ tk_pc' = "done"
    /\ UNCHANGED <<tk_record, FRESHDESK_CONFIGURED, contact_calls, contact_result,
                   contact_io>>
    /\ UNCHANGED <<mapVars, rtVars, hkVars, wpVars, apiVars, retryVars>>

-----------------------------------------------------------------------------
(* /webhook/freshdesk: signature verification and event dispatch *)

\* hmac.new(secret.encode(), payload, hashlib.sha256).hexdigest().  The digest
\* is kept symbolic: a text that determines, and is determined by, the key and
\* the payload bytes ("/" is in no key).
HexDigest(secret, payload) == <<"h">> \o secret \o <<"/">> \o payload

\* The characters compare_digest accepts in a str argument
IsAscii(s) == \A i \in 1..Len(s) : s[i] # "é"

\* The try block of app.verify_webhook_signature (lines 74-88)
verify_try_block(secret, payload, signature) ==
    IF secret = None THEN FALSE                 \* None.encode() raises: caught
    ELSE LET expected_signature == HexDigest(secret, payload)
             sig == IF StartsWith(signature, <<"s","h","a","2","5","6","=">>) THEN Drop(signature, 7)
                    ELSE signature
         IN  IF ~IsAscii(sig) THEN FALSE        \* compare_digest raises: caught
             ELSE sig = expected_signature

\* verify_webhook_signature without the early return on an unset secret
verify_webhook_signature_unguarded(secret, payload, signature) ==
    verify_try_block(secret, payload, signature)

\* app.verify_webhook_signature(payload, signature), WEBHOOK_SECRET = secret
verify_webhook_signature(secret, payload, signature) ==
    IF ~Truthy(secret) THEN TRUE
    ELSE verify_try_block(secret, payload, signature)

\* utils.verify_webhook_signature(payload, signature, secret): "True",
\* "False", or "raise" where compare_digest raises
utils_verify_webhook_signature(secret, payload, signature) ==
    IF ~Truthy(secret) THEN "True"
    ELSE IF ~IsAscii(signature) THEN "raise"
    ELSE IF signature = HexDigest(secret, payload) THEN "True" ELSE "False"

\* The request bodies.  A JSON event is serialised as three digits: the index
\* of its event type, of its ticket's tags and of its ticket's type in the
\* tables below (0: the key is absent).
EventTypes == <<<<"t","i","c","k","e","t","_","c","r","e","a","t","e","d">>, <<"t","i","c","k","e","t","_","u","p","d","a","t","e","d">>, <<"t","i","c","k","e","t","_","r","e","s","o","l","v","e","d">>,
                <<"t","i","c","k","e","t","_","d","e","l","e","t","e","d">>>>
TagLists == <<<<>>, <<<<"B","i","l","l","i","n","g">>>>, <<<<"s","u","p","p","o","r","t">>>>, <<<<"u","r","g","e","n","t">>, <<"I","N","V","O","I","C","E">>>>,
              <<Num7>>>>
TicketTypes == <<<<"b","i","l","l","i","n","g">>, <<"B","i","l","l","i","n","g">>, <<"I","n","c","i","d","e","n","t">>, None>>   \* None: JSON null
Digits == <<"0","1","2","3","4","5","6","7","8","9">>
DigitVal(c) == (CHOOSE i \in 1..10 : Digits[i] = c) - 1

EventBody(e, t, y) == <<Digits[e + 1], Digits[t + 1], Digits[y + 1]>>
BadJson == <<"{">>                 \* not JSON
EmptyJson == <<"{","}">>              \* the empty object

\* request.get_json() raises (BadRequest) on text that is not JSON
get_json_raises(raw) == raw = BadJson

\* request.get_json() on JSON text
get_json(raw) ==
    IF raw = EmptyJson THEN EmptyDict
    ELSE LET e == DigitVal(raw[1])
             t == DigitVal(raw[2])
             y == DigitVal(raw[3])
             ticket == ("id" :> <<"4","1">>)
                       @@ (IF t = 0 THEN EmptyDict ELSE ("tags" :> TagLists[t]))
                       @@ (IF y = 0 THEN EmptyDict ELSE ("type" :> TicketTypes[y]))
         IN  ("ticket" :> ticket)
             @@ (IF e = 0 THEN EmptyDict ELSE ("event_type" :> EventTypes[e]))

\* 'billing' or 'invoice' in [tag.lower() for tag in tags]
InTagsLower(tags) ==
    \/ \E i \in 1..Len(tags) : PyLower(tags[i]) = <<"b","i","l","l","i","n","g">>
    \/ \E i \in 1..Len(tags) : PyLower(tags[i]) = <<"i","n","v","o","i","c","e">>

\* should_create_invoice(ticket_data) raises where a tag has no lower(), or
\* where the tags decide nothing and the type has no lower()
should_create_invoice_raises(ticket_data) ==
    LET tags == Get(ticket_data, "tags", <<>>)
        ticket_type == Get(ticket_data, "type", <<>>)
    IN  \/ \E i \in 1..Len(tags) : ~IsText(tags[i])
        \/ ~InTagsLower(tags) /\ ~IsText(ticket_type)

\* should_create_invoice(ticket_data), where it returns
should_create_invoice(ticket_data) ==
    LET tags == Get(ticket_data, "tags", <<>>)
        ticket_type == Get(ticket_data, "type", <<>>)
    IN  InTagsLower(tags) \/ PyLower(ticket_type) = <<"b","i","l","l","i","n","g">>

\* A dispatch that drafts an invoice for every resolved ticket
Dispatch_invoice_always(webhook_data, notify) ==
    LET event_type == Get(webhook_data, "event_type", <<"u","n","k","n","o","w","n">>)
    IN  IF event_type = <<"t","i","c","k","e","t","_","c","r","e","a","t","e","d">>
        THEN <<200, "logged",
               <<"handle_ticket_created">>
               \o (IF Truthy(notify) THEN <<"send_notification_email">> ELSE <<>>)>>
        ELSE IF event_type = <<"t","i","c","k","e","t","_","u","p","d","a","t","e","d">>
        THEN <<200, "logged", <<"handle_ticket_updated">>>>
        ELSE IF event_type = <<"t","i","c","k","e","t","_","r","e","s","o","l","v","e","d">>
        THEN <<200, "resolved_processed",
               <<"handle_ticket_resolved", "create_invoice_for_resolved_ticket">>>>
        ELSE <<200, "ignored", <<>>>>

\* A dispatch that treats an event type without a handler as a fault
Dispatch_unsupported_is_error(webhook_data, notify) ==
    LET event_type == Get(webhook_data, "event_type", <<"u","n","k","n","o","w","n">>)
        ticket_data == Get(webhook_data, "ticket", EmptyDict)
    IN  IF event_type = <<"t","i","c","k","e","t","_","c","r","e","a","t","e","d">>
        THEN <<200, "logged",
               <<"handle_ticket_created">>
               \o (IF Truthy(notify) THEN <<"send_notification_email">> ELSE <<>>)>>
        ELSE IF event_type = <<"t","i","c","k","e","t","_","u","p","d","a","t","e","d">>
        THEN <<200, "logged", <<"handle_ticket_updated">>>>
        ELSE IF event_type = <<"t","i","c","k","e","t","_","r","e","s","o","l","v","e","d">>
        THEN     IF should_create_invoice_raises(ticket_data)
                 THEN <<500, "error", <<"handle_ticket_resolved">>>>
                 ELSE IF should_create_invoice(ticket_data)
                 THEN <<200, "resolved_processed",
                        <<"handle_ticket_resolved",
                          "create_invoice_for_resolved_ticket">>>>
                 ELSE <<200, "resolved_processed", <<"handle_ticket_resolved">>>>
        ELSE <<500, "error", <<>>>>

\* The event dispatch of freshdesk_webhook (lines 764-793) for parsed JSON:
\* <<HTTP status, result action, handlers and collaborators invoked>>
Dispatch(webhook_data, notify) ==
    LET event_type == Get(webhook_data, "event_type", <<"u","n","k","n","o","w","n">>)
        ticket_data == Get(webhook_data, "ticket", EmptyDict)
    IN  IF event_type = <<"t","i","c","k","e","t","_","c","r","e","a","t","e","d">>
        THEN <<200, "logged",
               <<"handle_ticket_created">>
               \o (IF Truthy(notify) THEN <<"send_notification_email">> ELSE <<>>)>>
        ELSE IF event_type = <<"t","i","c","k","e","t","_","u","p","d","a","t","e","d">>
        THEN <<200, "logged", <<"handle_ticket_updated">>>>
        ELSE IF event_type = <<"t","i","c","k","e","t","_","r","e","s","o","l","v","e","d">>
        THEN     IF should_create_invoice_raises(ticket_data)
                 THEN <<500, "error", <<"handle_ticket_resolved">>>>
                 ELSE IF should_create_invoice(ticket_data)
                 THEN <<200, "resolved_processed",
                        <<"handle_ticket_resolved",
                          "create_invoice_for_resolved_ticket">>>>
                 ELSE <<200, "resolved_processed", <<"handle_ticket_resolved">>>>
        ELSE <<200, "ignored", <<>>>>

\* The signature gate of freshdesk_webhook (lines 752-756): TRUE when the
\* request is let through
SignatureGate(secret, payload, signature) ==
    IF Truthy(secret) /\ Truthy(signature)
    THEN verify_webhook_signature(secret, payload, signature)
    ELSE TRUE

\* freshdesk_webhook(): <<HTTP status, result action, handlers invoked>>
freshdesk_webhook(req, secret, notify) ==
    IF req.method = "GET" THEN <<200, "ok", <<>>>>
    ELSE LET payload == req.body                              \* request.get_data()
             signature == IF req.signature = None THEN <<>> ELSE req.signature
         IN  IF ~SignatureGate(secret, payload, signature)
             THEN <<403, "Invalid signature", <<>>>>
             ELSE IF get_json_raises(payload)
             THEN <<500, "error", <<>>>>                       \* except Exception
             ELSE LET webhook_data == get_json(payload)
                  IN  IF webhook_data = EmptyDict
                      THEN <<400, "No JSON data received", <<>>>>
                      ELSE Dispatch(webhook_data, notify)

\* The signature headers a sender may present for a body: none, empty, the
\* digest under either key with or without the prefix, the digest of another
\* body, a bare prefix, and text compare_digest refuses
Secrets == {<<"k","1">>, <<"k","2">>}
SignaturesFor(body) ==
    {None, <<>>, <<"s","h","a","2","5","6","=">>, <<"é">>, HexDigest(<<"k","1">>, <<"0","0","0">>)}
    \cup {HexDigest(k, body) : k \in Secrets}
    \cup {<<"s","h","a","2","5","6","=">> \o HexDigest(k, body) : k \in Secrets}

Bodies ==
    {EventBody(e, t, y) : e \in 0..Len(EventTypes), t \in 0..Len(TagLists),
                          y \in 0..Len(TicketTypes)}
    \cup {BadJson, EmptyJson}

HkIdle ==
    /\ hk_pc = "idle"
    /\ WEBHOOK_SECRET = None
    /\ NOTIFICATION_EMAIL = None
    /\ request = Idle
    /\ response = Idle
    /\ dispatched = <<>>
    /\ verify_result = "none"
    /\ invoice_result = "none"

HkInit ==
    /\ hk_pc = "request"
    /\ WEBHOOK_SECRET \in {None, <<>>, <<"k","1">>}
    /\ NOTIFICATION_EMAIL \in {None, <<"o","p","s","@","x",".","i","o">>}
    /\ \E m \in {"GET", "POST"}, b \in Bodies :
         \E s \in SignaturesFor(b) :
            request = [method |-> m, body |-> b, signature |-> s]
    /\ response = Idle
    /\ dispatched = <<>>
    /\ verify_result = "none"
    /\ invoice_result = "none"

\* One request to /webhook/freshdesk, handled to its response
FreshdeskWebhook ==
    /\ hk_pc = "request"
    /\ LET r == freshdesk_webhook(request, WEBHOOK_SECRET, NOTIFICATION_EMAIL)
       IN  /\ response' = [status |-> r[1], action |-> r[2]]
           /\ dispatched' = r[3]
    /\ hk_pc' = "done"
    /\ verify_result' = "none"
    /\ UNCHANGED <<WEBHOOK_SECRET, NOTIFICATION_EMAIL, request, invoice_result>>
    /\ UNCHANGED <<mapVars, rtVars, tkVars, wpVars, apiVars, retryVars>>

\* A direct call of app.verify_webhook_signature on the request's body and
\* signature header
VerifyCall ==
    /\ hk_pc = "request"
    /\ request.signature # None
    /\ verify_result' = IF verify_webhook_signature(WEBHOOK_SECRET, request.body,
                                                    request.signature)
                        THEN "True" ELSE "False"
    /\ hk_pc' = "verified"
    /\ UNCHANGED <<WEBHOOK_SECRET, NOTIFICATION_EMAIL, request, response, dispatched,
                   invoice_result>>
    /\ UNCHANGED <<mapVars, rtVars, tkVars, wpVars, apiVars, retryVars>>

\* A direct call of utils.verify_webhook_signature with the configured secret
UtilsVerifyCall ==
    /\ hk_pc = "request"
    /\ request.signature # None
    /\ verify_result' = utils_verify_webhook_signature(WEBHOOK_SECRET, request.body,
                                                       request.signature)
    /\ hk_pc' = "verified_utils"
    /\ UNCHANGED <<WEBHOOK_SECRET, NOTIFICATION_EMAIL, request, response, dispatched,
                   invoice_result>>
    /\ UNCHANGED <<mapVars, rtVars, tkVars, wpVars, apiVars, retryVars>>

\* A direct call of should_create_invoice on the ticket of the request's event
ShouldCreateInvoiceCall ==
    /\ hk_pc = "request"
    /\ ~get_json_raises(request.body)
    /\ get_json(request.body) # EmptyDict
    /\ LET ticket_data == get_json(request.body)["ticket"]
       IN  invoice_result' =
               IF should_create_invoice_raises(ticket_data) THEN "raise"
               ELSE IF should_create_invoice(ticket_data) THEN "True" ELSE "False"
    /\ hk_pc' = "invoice_checked"
    /\ UNCHANGED <<WEBHOOK_SECRET, NOTIFICATION_EMAIL, request, response, dispatched,
                   verify_result>>
    /\ UNCHANGED <<mapVars, rtVars, tkVars, wpVars, apiVars, retryVars>>


-----------------------------------------------------------------------------
(* wordpress_webhook: POST /webhook/wordpress *)

EmailLocalSet == UpperSet \cup LowerSet \cup {Digits[i] : i \in 1..10}
                 \cup {".", "_", "%", "+", "-"}
EmailDomainSet == UpperSet \cup LowerSet \cup {Digits[i] : i \in 1..10} \cup {".", "-"}
EmailTldMin == 2

\* re.match(r'^[a-zA-Z0-9._%+-]+@[a-zA-Z0-9.-]+\.[a-zA-Z]{2,}$', s): a local
\* part up to `@` at position a, a domain up to a dot at position d, and
\* letters from there to the end
EmailPatternMatches(s) ==
    \E a \in 2..Len(s), d \in 1..Len(s) :
        /\ s[a] = "@"
        /\ \A i \in 1..(a - 1) : s[i] \in EmailLocalSet
        /\ d > a + 1
        /\ s[d] = "."
        /\ \A i \in (a + 1)..(d - 1) : s[i] \in EmailDomainSet
        /\ Len(s) - d >= EmailTldMin
        /\ \A i \in (d + 1)..Len(s) : s[i] \in UpperSet \cup LowerSet

\* validate_email(email); `$` also matches before a final newline
validate_email(email) ==
    IF email = <<>> THEN FALSE
    ELSE \/ EmailPatternMatches(email)
         \/ email[Len(email)] = "\n" /\ EmailPatternMatches(Take(email, Len(email) - 1))

\* The origin check (lines 193-201): TRUE when the request is refused
OriginRefused(req, allowed, env) ==
    LET origin == req.origin                                   \* None when absent
        user_agent == IF req.user_agent = None THEN <<>> ELSE req.user_agent
        is_development == env = <<"d","e","v","e","l","o","p","m","e","n","t">>
        is_test_request == \/ Contains(<<"c","u","r","l">>, PyLower(user_agent))
                           \/ Contains(<<"p","o","s","t","m","a","n">>, PyLower(user_agent))
    IN  /\ ~is_development
        /\ ~is_test_request
        /\ allowed # <<>>
        /\ Truthy(origin)
        /\ \A i \in 1..Len(allowed) : allowed[i] # origin

\* The required-field loop (lines 220-226) in which the name is not looked at
MissingField_name_unchecked(mapped) ==
    IF CleanField(mapped, "contact_email", <<>>) = <<>> THEN "contact_email"
    ELSE IF CleanField(mapped, "fault_description", <<>>) = <<>> THEN "fault_description"
    ELSE ""

\* The required-field loop (lines 220-226): the first required field whose
\* text is empty after trimming, "" when there is none
MissingField(mapped) ==
    IF CleanField(mapped, "contact_email", <<>>) = <<>> THEN "contact_email"
    ELSE IF CleanField(mapped, "contact_name", <<>>) = <<>> THEN "contact_name"
    ELSE IF CleanField(mapped, "fault_description", <<>>) = <<>> THEN "fault_description"
    ELSE ""

WpResponse(status, error) == [status |-> status, error |-> error]
WpProceed == WpResponse(0, "")        \* no response yet: the handler goes on

\* Lines 218-232: the validation of mapped_data, answering 400 or WpProceed
validate_mapped_data(mapped) ==
    IF MissingField(mapped) # ""
    THEN WpResponse(400, MissingField(mapped) \o " is required")
    ELSE IF ~validate_email(CleanField(mapped, "contact_email", <<>>))
    THEN WpResponse(400, "Invalid email format")
    ELSE WpProceed

\* wordpress_webhook() up to the mapping (lines 191-209): the response given
\* there, or WpProceed
wordpress_webhook_entry(req, allowed, env) ==
    IF OriginRefused(req, allowed, env)
    THEN WpResponse(403, "Unauthorized origin")
    ELSE IF ~req.body.json                        \* get_json() raises BadRequest,
    THEN WpResponse(500, "Internal server error") \* caught by `except Exception`
    ELSE IF req.body.data = EmptyDict
    THEN WpResponse(400, "No form data received")
    ELSE WpProceed

\* The description a form sends that holds a fault description section
FaultMessage ==
    <<"=","=","="," ","E","Q","U","I","P","M","E","N","T"," ","R","E","P","A","I","R"," ","R","E","Q","U","E","S","T"," ","=","=","=","\n","\n","E","Q","U","I","P","M","E","N","T"," ","I","N","F","O","R","M","A","T","I","O","N",":","\n","E","q","u","i","p","m","e","n","t"," ","T","y","p","e",":"," ","S","e","r","v","e","r","\n","\n","F","A","U","L","T"," ","D","E","S","C","R","I","P","T","I","O","N",":","\n","N","o"," ","p","o","w","e","r","\n">>

\* Submissions: form fields as the site sends them, and two that already use
\* the internal names and carry a tag that is a number
WpForms ==
    {e @@ n @@ m :
        e \in Opt("email", {<<" ","a","@","b",".","c","o"," ">>, <<"a","@","b">>, <<" "," ">>}),
        n \in Opt("name", {<<"J","a","n","e">>, <<" ">>}),
        m \in Opt("message", {FaultMessage, <<"P","l","e","a","s","e"," ","c","a","l","l"," ","m","e",".">>, Num7})}
    \cup {("contact_email" :> e) @@ ("contact_name" :> <<"J","a","n","e">>)
          @@ ("fault_description" :> <<"N","o"," ","p","o","w","e","r">>) @@ ("tags" :> <<Num7>>) :
             e \in {<<"a","@","b",".","c","o">>, <<"j","a","n","e","@","b",".","c">>}}

\* Request bodies: text that is not JSON, and JSON objects
WpBodies ==
    {[json |-> FALSE, data |-> EmptyDict]}
    \cup {[json |-> TRUE, data |-> f] : f \in WpForms \cup {EmptyDict}}

Origins == {None, <<"h","t","t","p","s",":","/","/","s","h","o","p">>, <<"h","t","t","p","s",":","/","/","e","v","i","l">>}
UserAgents == {None, <<"M","o","z","i","l","l","a","/","5",".","0">>, <<"c","u","r","l","/","8",".","0">>, <<"P","o","s","t","m","a","n","R","u","n","t","i","m","e","/","7">>}

WpIdle ==
    /\ wp_pc = "idle"
    /\ ALLOWED_ORIGINS = <<>>
    /\ FLASK_ENV = None
    /\ wp_request = Idle
    /\ wp_mapped_data = EmptyDict
    /\ wp_response = Idle

WpInit ==
    /\ wp_pc = "request"
    /\ ALLOWED_ORIGINS \in {<<>>, <<<<"h","t","t","p","s",":","/","/","s","h","o","p">>>>}
    /\ FLASK_ENV \in {None, <<"d","e","v","e","l","o","p","m","e","n","t">>}
    /\ wp_request \in {[origin |-> o, user_agent |-> u, body |-> b] :
                          o \in Origins, u \in UserAgents, b \in WpBodies}
    /\ wp_mapped_data = EmptyDict
    /\ wp_response = WpProceed

\* create_repair_ticket_direct not yet called, the helpdesk configured or not
TkWaiting ==
    /\ tk_pc = "idle"
    /\ tk_record = EmptyDict
    /\ FRESHDESK_CONFIGURED \in BOOLEAN
    /\ contact_calls = 0
    /\ contact_result = NoContact
    /\ contact_io = NotAsked
    /\ handed = <<>>
    /\ posted = <<>>
    /\ answers = <<>>
    /\ tk_result = NoResult

\* Lines 191-240: the handler up to its response, or up to its call of
\* create_repair_ticket_direct(mapped_data)
WpReceive ==
    /\ wp_pc = "request"
    /\ IF wordpress_webhook_entry(wp_request, ALLOWED_ORIGINS, FLASK_ENV) = WpProceed
       THEN /\ wp_mapped_data' = map_wordpress_fields(wp_request.body.data)
            /\ wp_response' = validate_mapped_data(wp_mapped_data')
       ELSE /\ wp_response' =
                   wordpress_webhook_entry(wp_request, ALLOWED_ORIGINS, FLASK_ENV)
            /\ UNCHANGED wp_mapped_data
    /\ IF wp_response' = WpProceed
       THEN /\ tk_record' = wp_mapped_data'
            /\ tk_pc' = "validate"
            /\ wp_pc' = "ticket"
       ELSE /\ wp_pc' = "done"
            /\ UNCHANGED <<tk_record, tk_pc>>
    /\ UNCHANGED <<ALLOWED_ORIGINS, FLASK_ENV, wp_request>>
    /\ UNCHANGED <<FRESHDESK_CONFIGURED, contact_calls, contact_result, contact_io, handed, posted,
                   answers, tk_result>>
    /\ UNCHANGED <<mapVars, rtVars, hkVars, apiVars, retryVars>>

\* Lines 242-269: the response once create_repair_ticket_direct returned
WpRespond ==
    /\ wp_pc = "ticket"
    /\ tk_pc = "done"
    /\ wp_response' = IF tk_result.success
                      THEN WpResponse(200, "")
                      ELSE WpResponse(500, "Failed to create repair ticket")
    /\ wp_pc' = "done"
    /\ UNCHANGED <<ALLOWED_ORIGINS, FLASK_ENV, wp_request, wp_mapped_data>>
    /\ UNCHANGED <<mapVars, rtVars, tkVars, hkVars, apiVars, retryVars>>
-----------------------------------------------------------------------------
(* /api/tickets and /api/tickets/<id> *)

ApiResponse(status, error) == [status |-> status, error |-> error]
ApiPending == ApiResponse(0, "")

\* str(e) of what request.get_json() raises on a body that is no JSON
BadRequestText == "400 Bad Request: The browser (or proxy) sent a request that this server could not understand."

\* str(e) of the AttributeError a JSON list meets at ticket_data.get
AttributeErrorText == "'list' object has no attribute 'get'"

\* str(e) of what requests.get raises, or of a 200 answer that is no JSON
GetFaults == {"Max retries exceeded with url: /api/v2/tickets/5",
              "Expecting value: line 1 column 1 (char 0)"}

\* What the helpdesk may do on GET /api/v2/tickets/<id>
GetAnswers == {"200", "404", "500"} \cup GetFaults

\* The bodies of POST /api/tickets: no JSON, an empty object, a list, objects
ApiBodies ==
    {[kind |-> "malformed", json |-> EmptyDict],
     [kind |-> "list", json |-> EmptyDict]}
    \cup {[kind |-> "object", json |-> j] :
             j \in {EmptyDict,
                    ("subject" :> <<"F","a","n">>),
                    ("subject" :> <<"F","a","n">>) @@ ("email" :> <<"a","@","b",".","c","o">>),
                    ("subject" :> <<"F","a","n">>) @@ ("email" :> <<>>)}}

ApiRequests ==
    {[route |-> "POST /api/tickets", body |-> b] : b \in ApiBodies}
    \cup {[route |-> "GET /api/tickets/<id>",
           body |-> [kind |-> "none", json |-> EmptyDict]]}

\* os.getenv('FLASK_DEBUG')
DebugSettings == {"True", "true", "False", "#unset"}

\* The response create_ticket_api makes of the result of create_freshdesk_ticket
\* (lines 1128-1132)
ResponseOfResult(result) ==
    IF result.success THEN ApiResponse(201, "")
    ELSE ApiResponse(500, result.error)

ApiIdle ==
    /\ api_pc = "idle"
    /\ FLASK_DEBUG = "#unset"
    /\ api_request = [route |-> "", body |-> [kind |-> "none", json |-> EmptyDict]]
    /\ api_fault = ""
    /\ api_response = ApiPending

ApiInit ==
    /\ api_pc = "request"
    /\ FLASK_DEBUG \in DebugSettings
    /\ api_request \in ApiRequests
    /\ api_fault = ""
    /\ api_response = ApiPending

\* create_ticket_api (lines 1120-1137), create_freshdesk_ticket included
CreateTicketApi ==
    /\ api_pc = "request"
    /\ api_request.route = "POST /api/tickets"
    /\ IF api_request.body.kind = "malformed"
       THEN /\ api_fault' = BadRequestText
            /\ api_response' = ApiResponse(500, api_fault')
            /\ UNCHANGED <<handed, posted, answers, tk_result>>
       ELSE IF api_request.body.kind = "object" /\ api_request.body.json = EmptyDict
       THEN /\ api_fault' = ""
            /\ api_response' = ApiResponse(400, "No ticket data provided")
            /\ UNCHANGED <<handed, posted, answers, tk_result>>
       ELSE IF api_request.body.kind = "list"
       THEN /\ handed' = Append(handed, api_request.body.json)
            /\ tk_result' = IF ~FRESHDESK_CONFIGURED
                            THEN Failure("Freshdesk configuration incomplete")
                            ELSE Failure("Unknown error: " \o AttributeErrorText)
            /\ api_fault' = IF FRESHDESK_CONFIGURED THEN AttributeErrorText ELSE ""
            /\ api_response' = ResponseOfResult(tk_result')
            /\ UNCHANGED <<posted, answers>>
       ELSE /\ \E answer \in TicketAnswers :
                  SubmitTicket(api_request.body.json, answer)
            /\ api_fault' = IF Len(answers') > Len(answers)
                               /\ answers'[Len(answers')] \in RequestFaults
                            THEN answers'[Len(answers')] ELSE ""
            /\ api_response' = ResponseOfResult(tk_result')
    /\ api_pc' = "done"
    /\ UNCHANGED <<FLASK_DEBUG, api_request>>
    /\ UNCHANGED <<tk_pc, tk_record, FRESHDESK_CONFIGURED, contact_calls,
                   contact_result, contact_io>>
    /\ UNCHANGED <<mapVars, rtVars, hkVars, wpVars, retryVars>>

\* get_ticket (lines 1140-1162)
GetTicket ==
    /\ api_pc = "request"
    /\ api_request.route = "GET /api/tickets/<id>"
    /\ \E answer \in GetAnswers :
          IF answer \in GetFaults
          THEN /\ api_fault' = answer
               /\ api_response' = ApiResponse(500, api_fault')
          ELSE /\ api_fault' = ""
               /\ api_response' =
                     IF answer = "200" THEN ApiResponse(200, "")
                     ELSE IF answer = "404"
                     THEN ApiResponse(404, "Failed to retrieve ticket")
                     ELSE ApiResponse(500, "Failed to retrieve ticket")
    /\ api_pc' = "done"
    /\ UNCHANGED <<FLASK_DEBUG, api_request>>
    /\ UNCHANGED <<tkVars, mapVars, rtVars, hkVars, wpVars, retryVars>>
-----------------------------------------------------------------------------
(* retry_api_call (src/utils.py) *)

MaxRetries == 3
MaxDelay == 2

\* What a call of func may do: return a value, raise an Exception, or raise
\* an exception that `except Exception` does not catch
FuncOutcomes ==
    {[kind |-> "return", value |-> v] : v \in {"r1", "#None"}}
    \cup {[kind |-> "Exception", value |-> v] : v \in {"E1", "E2"}}
    \cup {[kind |-> "BaseException", value |-> "KeyboardInterrupt"]}

Returned(value) == [kind |-> "return", value |-> value]
RaisedOut(value) == [kind |-> "raise", value |-> value]
Pending == [kind |-> "pending", value |-> ""]

\* time.sleep refuses a negative length
SleepRefusal == "ValueError: sleep length must be non-negative"

\* The wait without the attempt number
SleepLength_constant(d, a) == d

\* delay * (attempt + 1)
SleepLength(d, a) == d * (a + 1)

RetryIdle ==
    /\ retry_pc = "idle"
    /\ max_retries = 0
    /\ delay = 0
    /\ attempt = 0
    /\ outcomes = <<>>
    /\ sleeps = <<>>
    /\ retry_result = Pending

RetryInit ==
    /\ retry_pc = "call"
    /\ max_retries \in 0..MaxRetries
    /\ delay \in (0 - 1)..MaxDelay          \* a negative delay included
    /\ attempt = 0
    /\ outcomes = <<>>
    /\ sleeps = <<>>
    /\ retry_result = Pending

\* Lines 260-265: one pass of the loop body up to the sleep: func is called;
\* its value is returned, or its exception is raised on the last attempt
RetryCall ==
    /\ retry_pc = "call"
    /\ attempt < max_retries
    /\ \E o \in FuncOutcomes :
          /\ outcomes' = Append(outcomes, o)
          /\ IF o.kind = "return"
             THEN retry_pc' = "done" /\ retry_result' = Returned(o.value)
             ELSE IF o.kind = "BaseException" \/ attempt = max_retries - 1
             THEN retry_pc' = "done" /\ retry_result' = RaisedOut(o.value)
             ELSE retry_pc' = "sleep" /\ UNCHANGED retry_result
    /\ UNCHANGED <<max_retries, delay, attempt, sleeps>>
    /\ UNCHANGED <<mapVars, rtVars, tkVars, hkVars, wpVars, apiVars>>

\* Line 268: time.sleep(delay * (attempt + 1)), then the next attempt
RetrySleep ==
    /\ retry_pc = "sleep"
    /\ IF SleepLength(delay, attempt) < 0
       THEN /\ retry_pc' = "done"
            /\ retry_result' = RaisedOut(SleepRefusal)
            /\ UNCHANGED <<attempt, sleeps>>
       ELSE /\ sleeps' = Append(sleeps, SleepLength(delay, attempt))
            /\ attempt' = attempt + 1
            /\ retry_pc' = "call"
            /\ UNCHANGED retry_result
    /\ UNCHANGED <<max_retries, delay, outcomes>>
    /\ UNCHANGED <<mapVars, rtVars, tkVars, hkVars, wpVars, apiVars>>

\* Lines 260 and 270: the range is empty or used up, return None
RetryExhausted ==
    /\ retry_pc = "call"
    /\ attempt >= max_retries
    /\ retry_pc' = "done"
    /\ retry_result' = Returned("#None")
    /\ UNCHANGED <<max_retries, delay, attempt, outcomes, sleeps>>
    /\ UNCHANGED <<mapVars, rtVars, tkVars, hkVars, wpVars, apiVars>>
-----------------------------------------------------------------------------
(* The mapper under every raw submission of a bounded family *)

\* Messages: none, free text, and structured messages whose USER ACCOUNT
\* section carries a status line, a password line, or both
Messages ==
    {<<"P","a","s","s","w","o","r","d"," ","P","r","o","v","i","d","e","d",":"," ","Y","e","s">>,
     <<"P","l","e","a","s","e"," ","c","a","l","l"," ","m","e",".","\n","M","y"," ","a","c","c","o","u","n","t"," ","p","a","s","s","w","o","r","d",":"," ","h","u","n","t","e","r","2">>,
     <<"=","=","="," ","E","Q","U","I","P","M","E","N","T"," ","R","E","P","A","I","R"," ","R","E","Q","U","E","S","T"," ","=","=","=","\n","\n","U","S","E","R"," ","A","C","C","O","U","N","T",":","\n","P","r","o","f","i","l","e"," ","N","a","m","e",":"," ","j","a","n","e","\n","P","a","s","s","w","o","r","d"," ","P","r","o","v","i","d","e","d",":"," ","Y","e","s","\n">>,
     <<"=","=","="," ","E","Q","U","I","P","M","E","N","T"," ","R","E","P","A","I","R"," ","R","E","Q","U","E","S","T"," ","=","=","=","\n","\n","U","S","E","R"," ","A","C","C","O","U","N","T",":","\n","P","a","s","s","w","o","r","d",":"," ","m","s","g","-","p","w","\n","P","a","s","s","w","o","r","d"," ","P","r","o","v","i","d","e","d",":"," ","Y","e","s","\n">>,
     <<"=","=","="," ","E","Q","U","I","P","M","E","N","T"," ","R","E","P","A","I","R"," ","R","E","Q","U","E","S","T"," ","=","=","=","\n","\n","U","S","E","R"," ","A","C","C","O","U","N","T",":","\n","P","a","s","s","w","o","r","d",":"," ","a","b","\n","P","a","s","s","w","o","r","d"," ","P","r","o","v","i","d","e","d",":"," ","Y","e","s","\n">>,
     <<"=","=","="," ","E","Q","U","I","P","M","E","N","T"," ","R","E","P","A","I","R"," ","R","E","Q","U","E","S","T"," ","=","=","=","\n","\n","E","Q","U","I","P","M","E","N","T"," ","I","N","F","O","R","M","A","T","I","O","N",":","\n","E","q","u","i","p","m","e","n","t"," ","T","y","p","e",":"," ","S","e","r","v","e","r","\n","\n","F","A","U","L","T"," ","D","E","S","C","R","I","P","T","I","O","N",":","\n","N","o"," ","p","o","w","e","r","\n","\n","U","S","E","R"," ","A","C","C","O","U","N","T",":","\n","P","a","s","s","w","o","r","d",":"," ","Y","e","s","\n","P","a","s","s","w","o","r","d"," ","P","r","o","v","i","d","e","d",":"," ","Y","e","s","\n">>,
     Num7}

CustomFields ==
    {u @@ p @@ b :
        u \in Opt("user_profile_password", {<<"n","o","t"," ","p","r","o","v","i","d","e","d">>, <<"c","f","-","u","p","p">>}),
        p \in Opt("password", {<<"c","f","-","p","w">>}),
        b \in Opt("equipment_brand", {<<"H","P">>})}
    \cup {("user_password" :> <<"c","f","-","u","s","r">>)}

\* A structured message that names the contact and the equipment
ContactMessage ==
    <<"=","=","="," ","E","Q","U","I","P","M","E","N","T"," ","R","E","P","A","I","R"," ","R","E","Q","U","E","S","T"," ","=","=","=","\n","\n","C","U","S","T","O","M","E","R"," ","D","E","T","A","I","L","S",":","\n","C","o","n","t","a","c","t"," ","N","a","m","e",":"," ","M","a","x","\n","E","m","a","i","l",":"," ","m","@","x",".","i","o","\n","\n","E","Q","U","I","P","M","E","N","T"," ","I","N","F","O","R","M","A","T","I","O","N",":","\n","B","r","a","n","d",":"," ","D","e","l","l","\n">>

\* Submissions whose contact and equipment fields come from up to three places
PrecedenceForms ==
    {e @@ n @@ c @@ m :
        e \in Opt("email", {<<>>, <<" "," ">>, <<"a","@","b",".","c","o">>}),
        n \in Opt("name", {<<"J","a","n","e">>}),
        c \in {EmptyDict,
               ("custom_fields" :> ("equipment_brand" :> <<"H","P">>)),
               ("custom_fields" :> (("equipment_brand" :> <<>>)
                                    @@ ("serial_number" :> <<"S","N","1">>)))},
        m \in Opt("message", {ContactMessage})}

Forms ==
    {("email" :> <<" ","a","@","b",".","c","o"," ">>) @@ ("name" :> <<"J","a","n","e">>)
     @@ u @@ p @@ up @@ pp @@ c @@ m @@ t :
        u \in Opt("user_profile_password", {<<"N","o">>, <<"u","p","p","-","t","o","p">>}),
        p \in Opt("password", {<<>>, <<"P","r","o","v","i","d","e","d">>, <<" ","p","w","-","t","o","p"," ">>, Num7}),
        up \in Opt("user_password", {<<"u","s","r","-","p","w">>}),
        pp \in Opt("profile_password", {<<"p","r","f","-","p","w">>}),
        c \in {IF cf = EmptyDict THEN EmptyDict ELSE ("custom_fields" :> cf) :
                  cf \in CustomFields},
        m \in Opt("message", Messages),
        t \in Opt("tags", {<<<<"u","r","g","e","n","t">>, <<"L","A","P","T","O","P">>>>, <<Num7>>})}
    \cup PrecedenceForms

MapIdle ==
    /\ map_pc = "idle"
    /\ form_data = EmptyDict
    /\ mapped_data = EmptyDict
    /\ map_raised = FALSE

MapInit ==
    /\ map_pc = "call"
    /\ form_data \in Forms
    /\ mapped_data = EmptyDict
    /\ map_raised = FALSE

\* One call of map_wordpress_fields(form_data)
MapCall ==
    /\ map_pc = "call"
    /\ mapped_data' = map_wordpress_fields(form_data)
    /\ map_raised' = MapRaises(form_data)
    /\ map_pc' = "done"
    /\ UNCHANGED form_data
    /\ UNCHANGED <<rtVars, tkVars, hkVars, wpVars, apiVars, retryVars>>

-----------------------------------------------------------------------------
(* The formatter and the extractor, one after the other, on canonical records *)

\* Canonical records: every value a non-empty trimmed text
RtRecords ==
    {("contact_name" :> <<"J","a","n","e"," ","D","o","e">>) @@ ("contact_email" :> <<"a","@","b",".","c","o">>)
     @@ ("contact_phone" :> <<"0","4","0","0"," ","1","1","1"," ","2","2","2">>) @@ ("business_name" :> <<"A","c","m","e">>)
     @@ ("serial_number" :> <<"S","N","1">>)
     @@ q @@ rt @@ f @@ a @@ c @@ n @@ p @@ i :
        q \in {EmptyDict,
               ("equipment_type" :> <<"L","a","p","t","o","p">>) @@ ("equipment_brand" :> <<"H","P">>)
               @@ ("equipment_model" :> <<"G","5">>) @@ ("store_location" :> <<"M","a","i","n"," ","S","t">>)
               @@ ("repair_date" :> <<"2","0","2","5","-","0","1","-","3","1">>)},
        rt \in Opt("repair_time", {<<"1","0",":","3","0">>}),
        f \in Opt("fault_description", {<<"N","o"," ","p","o","w","e","r">>, <<"S","c","r","e","e","n",":"," ","c","r","a","c","k","e","d">>}),
        a \in Opt("accessories", {<<"C","h","a","r","g","e","r">>, <<"N","o","n","e"," ","s","p","e","c","i","f","i","e","d">>, <<" "," ">>}),
        c \in Opt("additional_comments", {<<"C","a","l","l"," ","f","i","r","s","t">>}),
        n \in Opt("user_profile_name", {<<"j","a","n","e">>}),
        p \in Opt("user_profile_password", {<<"s","3","c","r","e","t">>}),
        i \in Opt("internal_ticket_id", {<<"T","-","9">>, None})}

RtIdle ==
    /\ rt_pc = "idle"
    /\ rt_record = EmptyDict
    /\ rt_text = <<>>
    /\ rt_extracted = EmptyDict

RtInit ==
    /\ rt_pc = "format"
    /\ rt_record \in RtRecords
    /\ rt_text = <<>>
    /\ rt_extracted = EmptyDict

\* format_ticket_description_clean(rt_record)
RtFormat ==
    /\ rt_pc = "format"
    /\ rt_text' = format_ticket_description_clean(rt_record)
    /\ rt_pc' = "extract"
    /\ UNCHANGED <<rt_record, rt_extracted>>
    /\ UNCHANGED <<mapVars, tkVars, hkVars, wpVars, apiVars, retryVars>>

\* extract_from_structured_message(rt_text)
RtExtract ==
    /\ rt_pc = "extract"
    /\ rt_extracted' = extract_from_structured_message(rt_text)
    /\ rt_pc' = "done"
    /\ UNCHANGED <<rt_record, rt_text>>
    /\ UNCHANGED <<mapVars, tkVars, hkVars, wpVars, apiVars, retryVars>>

-----------------------------------------------------------------------------
(* Specifications, one per component *)

InitMap == MapInit /\ RtIdle /\ TkIdle /\ HkIdle /\ WpIdle /\ ApiIdle /\ RetryIdle
SpecMap == InitMap /\ [][MapCall]_vars

InitRT == MapIdle /\ RtInit /\ TkIdle /\ HkIdle /\ WpIdle /\ ApiIdle /\ RetryIdle
NextRT == RtFormat \/ RtExtract
SpecRT == InitRT /\ [][NextRT]_vars

InitTicket == MapIdle /\ RtIdle /\ TkInit /\ HkIdle /\ WpIdle /\ ApiIdle /\ RetryIdle
NextTicket == TkValidate \/ TkContact \/ TkSubmit \/ TkFallback
SpecTicket == InitTicket /\ [][NextTicket]_vars

\* The run is sequential code whose every request carries a timeout: a step
\* that can be taken is taken
SpecTicketFair == InitTicket /\ [][NextTicket]_vars /\ WF_vars(NextTicket)

InitHook == MapIdle /\ RtIdle /\ TkIdle /\ HkInit /\ WpIdle /\ ApiIdle /\ RetryIdle
NextHook == FreshdeskWebhook \/ VerifyCall \/ UtilsVerifyCall \/ ShouldCreateInvoiceCall
SpecHook == InitHook /\ [][NextHook]_vars

InitWp == MapIdle /\ RtIdle /\ TkWaiting /\ HkIdle /\ WpInit /\ ApiIdle /\ RetryIdle
NextWp == WpReceive \/ NextTicket \/ WpRespond
SpecWp == InitWp /\ [][NextWp]_vars

InitApi == MapIdle /\ RtIdle /\ TkWaiting /\ HkIdle /\ WpIdle /\ ApiInit /\ RetryIdle
NextApi == CreateTicketApi \/ GetTicket
SpecApi == InitApi /\ [][NextApi]_vars

InitRetry == MapIdle /\ RtIdle /\ TkIdle /\ HkIdle /\ WpIdle /\ ApiIdle /\ RetryInit
NextRetry == RetryCall \/ RetrySleep \/ RetryExhausted

\* func returns or raises, and a wait ends: a step that can be taken is taken
SpecRetryFair == InitRetry /\ [][NextRetry]_vars /\ WF_vars(NextRetry)

Init == InitMap \/ InitRT \/ InitTicket \/ InitHook \/ InitWp \/ InitApi \/ InitRetry
Next == MapCall \/ NextRT \/ NextTicket \/ NextHook \/ WpReceive \/ WpRespond
            \/ NextApi \/ NextRetry
Spec == Init /\ [][Next]_vars

-----------------------------------------------------------------------------
(* Claims about the field mapper (SpecMap) *)

\* A value that is non-empty after trimming and no status token
NonPlaceholder(v) ==
    /\ PyStrip(PyStr(v)) # <<>>
    /\ PyLower(PyStrip(PyStr(v))) \notin StatusTokens

HasNonPlaceholder(d, k) == k \in DOMAIN d /\ NonPlaceholder(d[k])

PasswordFieldNames ==
    {"user_profile_password", "password", "user_password", "profile_password"}

\* The key a line would give the extractor: the text before its first colon,
\* trimmed, lower-cased, spaces replaced
LineKey(raw) ==
    LET line == PyStrip(raw)
    IN  IF Contains(<<":">>, line)
        THEN ReplaceSpace(PyLower(PyStrip(SplitFirstColon(line)[1])))
        ELSE <<>>

\* A structured message with a `Password:` or `User Profile Password:` line
HasPasswordKeyLine(message) ==
    /\ Contains(Marker, message)
    /\ LET lines == PySplit(message, "\n")
       IN  \E i \in 1..Len(lines) :
              LineKey(lines[i]) \in {<<"p","a","s","s","w","o","r","d">>, <<"u","s","e","r","_","p","r","o","f","i","l","e","_","p","a","s","s","w","o","r","d">>}

\* The only password signal is the text `Password Provided: Yes`
OnlyStatusSignal ==
    /\ DOMAIN form_data \cap PasswordFieldNames = {}
    /\ DOMAIN Get(form_data, "custom_fields", EmptyDict) \cap PasswordFieldNames = {}
    /\ "message" \in DOMAIN form_data
    /\ IsText(form_data["message"])
    /\ Contains(<<"P","a","s","s","w","o","r","d"," ","P","r","o","v","i","d","e","d",":"," ","Y","e","s">>, form_data["message"])
    /\ find_password_in_message(form_data["message"]) = None

-----------------------------------------------------------------------------
(* Claims about the formatter and the extractor (SpecRT) *)

\* The fields the formatter renders and the extractor reads, other than
\* accessories and additional_comments
RoundTripFields ==
    {"contact_name", "business_name", "contact_phone", "contact_email",
     "equipment_type", "equipment_brand", "equipment_model", "serial_number",
     "store_location", "repair_date", "repair_time", "fault_description",
     "user_profile_name", "user_profile_password", "internal_ticket_id"}

\* C3: extracting from the formatter's text yields, for every field other than
\* accessories and additional_comments, the record's value, and no value for a
\* field the record lacks.
C3_RoundTrip ==
    rt_pc = "done"
        => \A k \in RoundTripFields :
              IF k \in DOMAIN rt_record
              THEN k \in DOMAIN rt_extracted /\ rt_extracted[k] = rt_record[k]
              ELSE k \notin DOMAIN rt_extracted

-----------------------------------------------------------------------------
(* Claims about the orchestrator (SpecTicket) *)

\* C4: every payload handed to create_freshdesk_ticket, first attempt or
\* fallback, has a subject of at most 100 characters.
C4_SubjectAtMost100 ==
    \A i \in 1..Len(handed) : Len(handed[i]["subject"]) <= 100

\* C4's case: both payloads were handed over for a record whose untruncated
\* subject is longer than 100 characters
C4_Witness ==
    /\ Len(handed) = 2
    /\ Len(tk_subject(tk_record)) > 100
    /\ Len(handed[2]["subject"]) = 100

\* contact_email is missing, empty or whitespace-only
EmailBlank(form) ==
    "contact_email" \notin DOMAIN form \/ PyStrip(form["contact_email"]) = <<>>

\* C5: a record whose contact_email is missing, empty or whitespace-only is
\* answered with a failure naming the email, and neither contact resolution
\* nor ticket creation is called.
C5_BlankEmailRejected ==
    (tk_pc \notin {"idle", "validate"} /\ EmailBlank(tk_record))
        => /\ tk_pc = "done"
           /\ tk_result = Failure("Email is required")
           /\ contact_calls = 0
           /\ handed = <<>>
           /\ posted = <<>>

\* C5's case: a whitespace-only email, rejected
C5_Witness ==
    /\ tk_pc = "done"
    /\ "contact_email" \in DOMAIN tk_record
    /\ tk_record["contact_email"] = <<" "," ">>
    /\ tk_result.error = "Email is required"

\* The first attempt went out and the helpdesk answered 201
FirstSucceeded == answers # <<>> /\ answers[1] = "201"

\* Contact resolution returned a contact with an id
ContactIdResolved ==
    contact_result.some /\ "id" \in DOMAIN contact_result.json

\* C6: after a successful first submission no second payload is submitted,
\* whether or not a contact id was resolved; the first result is returned.
C6_NoFallbackAfterSuccess ==
    (tk_pc = "done" /\ FirstSucceeded)
        => /\ Len(handed) = 1
           /\ Len(posted) = 1
           /\ tk_result = Success(1001)

\* C6's case: the first attempt succeeded although a contact id was at hand
C6_Witness ==
    tk_pc = "done" /\ FirstSucceeded /\ ContactIdResolved

RequesterKeys == {"email", "name", "phone"}

\* C7: when the first submission failed and a contact id was resolved, a
\* second payload is built that carries requester_id equal to the id, none of
\* email, name, phone, and every other field as in the first payload.
C7_FallbackPayload ==
    /\ (tk_pc = "done" /\ handed # <<>> /\ ~FirstSucceeded /\ ContactIdResolved)
          => Len(handed) = 2
    /\ Len(handed) = 2
          => /\ ~FirstSucceeded /\ ContactIdResolved
             /\ DOMAIN handed[2]
                  = (DOMAIN handed[1] \ RequesterKeys) \cup {"requester_id"}
             /\ handed[2]["requester_id"] = contact_result.json["id"]
             /\ \A k \in DOMAIN handed[1] \ RequesterKeys : handed[2][k] = handed[1][k]

\* C7's case: a second payload built from a first one that carried a phone
C7_Witness ==
    /\ Len(handed) = 2
    /\ "phone" \in DOMAIN handed[1]
    /\ handed[2]["requester_id"] = 42

\* C8: when the first submission failed and a contact id was resolved, the
\* requester-id payload is submitted once to the helpdesk, and the final
\* result is that submission's outcome.
C8_FallbackSubmitted ==
    (/\ tk_pc = "done"
     /\ FRESHDESK_CONFIGURED
     /\ handed # <<>>
     /\ ~FirstSucceeded
     /\ ContactIdResolved)
        => /\ Cardinality({i \in 1..Len(posted) :
                              "requester_id" \in DOMAIN posted[i]}) = 1
           /\ tk_result = ResultOfAnswer(answers[Len(answers)])

-----------------------------------------------------------------------------
(* Claims about the helpdesk webhook (SpecHook) *)

\* The request carries a signature that, after stripping an optional
\* `sha256=` prefix, equals the HMAC of the raw body under the secret
ValidlySigned ==
    /\ request.signature # None
    /\ LET sig == IF StartsWith(request.signature, <<"s","h","a","2","5","6","=">>)
                  THEN Drop(request.signature, 7) ELSE request.signature
       IN  sig = HexDigest(WEBHOOK_SECRET, request.body)

SecretConfigured == WEBHOOK_SECRET # None /\ WEBHOOK_SECRET # <<>>

\* C9: with a secret configured, a POST reaches event dispatch only if it is
\* validly signed; every other POST, a missing or empty signature included, is
\* answered 403 and not dispatched.
C9_SignatureGatesDispatch ==
    (/\ hk_pc = "done"
     /\ SecretConfigured
     /\ request.method = "POST"
     /\ ~ValidlySigned)
        => response.status = 403 /\ dispatched = <<>>

\* The handler the event type of a body selects, or "" for none
HandlerFor(body) ==
    IF body \in {BadJson, EmptyJson} THEN ""
    ELSE IF body[1] = "1" THEN "handle_ticket_created"
    ELSE IF body[1] = "2" THEN "handle_ticket_updated"
    ELSE IF body[1] = "3" THEN "handle_ticket_resolved"
    ELSE ""

\* C10: with no secret configured (unset or empty), verify_webhook_signature
\* answers true for every payload and signature, in app and in utils, and the
\* handler dispatches the event without a signature check.
C10_NoSecretAlwaysPasses ==
    ~SecretConfigured
        => /\ hk_pc \in {"verified", "verified_utils"} => verify_result = "True"
           /\ (hk_pc = "done" /\ request.method = "POST")
                 => /\ response.status # 403
                    /\ HandlerFor(request.body) # ""
                          => /\ dispatched # <<>>
                             /\ dispatched[1] = HandlerFor(request.body)

\* C10's case: with an empty secret, a POST whose signature matches nothing
\* is dispatched to its handler
C10_Witness ==
    /\ WEBHOOK_SECRET = <<>>
    /\ hk_pc = "done"
    /\ request.method = "POST"
    /\ request.signature = HexDigest(<<"k","2">>, request.body)
    /\ response.status = 200
    /\ dispatched = <<"handle_ticket_resolved", "create_invoice_for_resolved_ticket">>

-----------------------------------------------------------------------------
(* Further claims about the field mapper (SpecMap) *)

\* A value that is a non-empty string with no leading or trailing whitespace
\* (the value of tags is a list, every other value text or a number)
IsTrimmedString(k, v) ==
    k # "tags" /\ IsText(v) /\ v # <<>> /\ PyStrip(v) = v

\* C17: every value in the record map_wordpress_fields returns is a non-empty
\* string with no leading or trailing whitespace.
C17_ValuesTrimmed ==
    map_pc = "done"
        => \A k \in DOMAIN mapped_data : IsTrimmedString(k, mapped_data[k])

\* C20: map_wordpress_fields never raises; when its mapping fails it returns
\* the raw submission itself, contents unchanged, and a call never changes
\* the raw submission.
C20_ErrorReturnsOriginal ==
    [][(map_pc = "call" /\ map_pc' = "done")
          => /\ form_data' = form_data
             /\ map_raised' => mapped_data' = form_data]_vars

\* C20's case: a tag that is no text made the mapping fail, and the raw
\* submission came back
C20_Witness ==
    /\ map_pc = "done"
    /\ map_raised
    /\ "tags" \in DOMAIN form_data
    /\ form_data["tags"] = <<Num7>>
    /\ IsText(Get(form_data, "message", <<>>))
    /\ mapped_data = form_data

-----------------------------------------------------------------------------
(* Further claims about the orchestrator (SpecTicket) *)

\* The payload names the requester by email and name, with no requester_id
EmailForm(payload) ==
    {"email", "name"} \subseteq DOMAIN payload /\ "requester_id" \notin DOMAIN payload

\* The payload names the requester by requester_id alone
RequesterIdForm(payload) ==
    "requester_id" \in DOMAIN payload /\ DOMAIN payload \cap RequesterKeys = {}

\* C18: every payload create_repair_ticket_direct submits carries the
\* requester identity in exactly one form: email and name (optionally phone)
\* without requester_id, or requester_id without email, name and phone.
C18_OneIdentityForm ==
    /\ \A i \in 1..Len(handed) : EmailForm(handed[i]) # RequesterIdForm(handed[i])
    /\ \A i \in 1..Len(posted) : EmailForm(posted[i]) # RequesterIdForm(posted[i])

\* C18's case: a first payload without a phone, then the requester-id payload
C18_Witness ==
    /\ Len(handed) = 2
    /\ EmailForm(handed[1]) /\ "phone" \notin DOMAIN handed[1]
    /\ RequesterIdForm(handed[2])

\* contact_name is missing, or empty after trimming
NameBlank(form) ==
    "contact_name" \notin DOMAIN form \/ PyStrip(form["contact_name"]) = <<>>

\* C19: a record whose contact_name is missing or empty after trimming (its
\* email being given) is rejected with the error naming the customer name,
\* and no external call is made.
C19_BlankNameRejected ==
    (/\ tk_pc \notin {"idle", "validate"}
     /\ NameBlank(tk_record)
     /\ ~EmailBlank(tk_record))
        => /\ tk_pc = "done"
           /\ tk_result = Failure("Customer name is required")
           /\ contact_calls = 0
           /\ handed = <<>>
           /\ posted = <<>>

-----------------------------------------------------------------------------
(* Claims about billing eligibility and event dispatch (SpecHook) *)

\* The ticket of the event the request carries
EventTicket == Get(get_json(request.body), "ticket", EmptyDict)

\* The event type of the event the request carries, "unknown" when absent
EventType == Get(get_json(request.body), "event_type", <<"u","n","k","n","o","w","n">>)

\* The request carries an event, that is, JSON text other than the empty object
CarriesEvent == request.body \notin {BadJson, EmptyJson}

\* Billing eligibility as stated: a tag that reads `billing` or `invoice`
\* whatever its case, or the type `billing` (read whatever its case, too)
BillingEligible(ticket_data) ==
    LET tags == Get(ticket_data, "tags", <<>>)
        ticket_type == Get(ticket_data, "type", <<>>)
    IN  \/ \E i \in 1..Len(tags) :
              IsText(tags[i]) /\ PyLower(tags[i]) \in {<<"b","i","l","l","i","n","g">>, <<"i","n","v","o","i","c","e">>}
        \/ IsText(ticket_type) /\ PyLower(ticket_type) = <<"b","i","l","l","i","n","g">>

\* C11: should_create_invoice(ticket) answers true exactly when the ticket is
\* billing-eligible (a `billing` or `invoice` tag compared case-insensitively,
\* or the type `billing`), and false for every other ticket.
C11_InvoiceDecision ==
    hk_pc = "invoice_checked"
        => invoice_result = IF BillingEligible(EventTicket) THEN "True" ELSE "False"

\* The event reached the dispatch: a POST let through the signature gate
ReachedDispatch ==
    /\ hk_pc = "done"
    /\ request.method = "POST"
    /\ CarriesEvent
    /\ response.status # 403

InvoiceDrafted ==
    \E i \in 1..Len(dispatched) : dispatched[i] = "create_invoice_for_resolved_ticket"

C13_UnknownEventIgnored ==
    (/\ ReachedDispatch
     /\ EventType \notin {<<"t","i","c","k","e","t","_","c","r","e","a","t","e","d">>, <<"t","i","c","k","e","t","_","u","p","d","a","t","e","d">>, <<"t","i","c","k","e","t","_","r","e","s","o","l","v","e","d">>})
        => /\ response.status = 200
           /\ response.action = "ignored"
           /\ dispatched = <<>>

\* C13's case: an event without an event type, its ticket tagged Billing, was
\* answered 200 as ignored
C13_Witness ==
    /\ ReachedDispatch
    /\ "event_type" \notin DOMAIN get_json(request.body)
    /\ Get(EventTicket, "tags", <<>>) = <<<<"B","i","l","l","i","n","g">>>>
    /\ response.status = 200
    /\ response.action = "ignored"
    /\ dispatched = <<>>

-----------------------------------------------------------------------------
(* Claims about the form webhook (SpecWp) *)

\* The handler has left its first step
WpHandled == wp_pc \in {"ticket", "done"}

\* No contact resolution and no ticket creation was attempted
NoOutboundCall == contact_calls = 0 /\ handed = <<>> /\ posted = <<>>

\* The request carries an Origin header that is not in the configured,
\* non-empty list of allowed origins
ForeignOrigin ==
    /\ ALLOWED_ORIGINS # <<>>
    /\ wp_request.origin # None
    /\ \A i \in 1..Len(ALLOWED_ORIGINS) : ALLOWED_ORIGINS[i] # wp_request.origin

\* C14: a POST that carries an Origin header not contained in the configured,
\* non-empty allowed-origins list is answered 403, and neither field mapping
\* nor ticket creation is reached.
C14_ForeignOriginRefused ==
    (WpHandled /\ ForeignOrigin)
        => /\ wp_pc = "done"
           /\ wp_response.status = 403
           /\ wp_mapped_data = EmptyDict
           /\ tk_pc = "idle"
           /\ NoOutboundCall

\* C15: a POST whose body is not valid JSON (its origin not being refused) is
\* answered 400, not 500, and no ticket creation is attempted.
C15_BadJsonIs400 ==
    (/\ WpHandled
     /\ ~wp_request.body.json
     /\ ~OriginRefused(wp_request, ALLOWED_ORIGINS, FLASK_ENV))
        => /\ wp_pc = "done"
           /\ wp_response.status = 400
           /\ tk_pc = "idle"
           /\ NoOutboundCall

\* The mapped record passes validation: the three required fields are
\* non-empty after trimming, and the trimmed email passes validate_email
PassesValidation(mapped) ==
    /\ \A f \in {"contact_email", "contact_name", "fault_description"} :
           CleanField(mapped, f, <<>>) # <<>>
    /\ validate_email(CleanField(mapped, "contact_email", <<>>))

-----------------------------------------------------------------------------
(* Further claims about the field mapper (SpecMap) *)

\* C22: the returned record never holds a user_profile_password that is a
\* status token (yes, no, provided, not provided, whatever the case, after
\* trimming).
C22_NoStatusTokenAsPassword ==
    (map_pc = "done" /\ ~map_raised /\ "user_profile_password" \in DOMAIN mapped_data)
        => PyLower(PyStrip(PyStr(mapped_data["user_profile_password"]))) \notin StatusTokens

\* The eight candidates in the stated order: the four names at top level,
\* then the same four names inside custom_fields
StatedPasswordOrder ==
    << <<"user_profile_password", "form_data">>, <<"password", "form_data">>,
       <<"user_password", "form_data">>, <<"profile_password", "form_data">>,
       <<"user_profile_password", "custom_fields">>, <<"password", "custom_fields">>,
       <<"user_password", "custom_fields">>, <<"profile_password", "custom_fields">> >>

\* The candidate i of the stated order qualifies in the submission
StatedCandidateQualifies(form, i) ==
    LET source == IF StatedPasswordOrder[i][2] = "form_data" THEN form
                  ELSE Get(form, "custom_fields", EmptyDict)
    IN  HasNonPlaceholder(source, StatedPasswordOrder[i][1])

StatedCandidateText(form, i) ==
    LET source == IF StatedPasswordOrder[i][2] = "form_data" THEN form
                  ELSE Get(form, "custom_fields", EmptyDict)
    IN  PyStrip(PyStr(source[StatedPasswordOrder[i][1]]))

\* C23: the password is the first qualifying candidate of the stated order of
\* eight; a candidate that does not qualify never blocks a later one.
C23_FirstQualifyingCandidate ==
    (map_pc = "done" /\ ~map_raised)
        => \A i \in 1..Len(StatedPasswordOrder) :
              (/\ StatedCandidateQualifies(form_data, i)
               /\ \A j \in 1..(i - 1) : ~StatedCandidateQualifies(form_data, j))
                  => /\ "user_profile_password" \in DOMAIN mapped_data
                     /\ mapped_data["user_profile_password"]
                          = StatedCandidateText(form_data, i)

\* Some candidate the code reads qualifies
DirectCandidateQualifies(form) ==
    \/ \E k \in PasswordFieldNames : HasNonPlaceholder(form, k)
    \/ \E k \in {"user_profile_password", "password"} :
          HasNonPlaceholder(Get(form, "custom_fields", EmptyDict), k)

\* The text is what follows the first colon of a line of the message that
\* contains a password pattern
ReadFromPasswordLine(text, message) ==
    LET lines == PySplit(message, "\n")
    IN  \E i \in 1..Len(lines) :
           /\ \E p \in 1..Len(password_patterns) :
                 Contains(password_patterns[p], PyLower(PyStrip(lines[i])))
           /\ Contains(<<":">>, lines[i])
           /\ text = PyStrip(SplitFirstColon(PyStrip(lines[i]))[2])

TopLevelSources ==
    << <<"email", "contact_email">>, <<"name", "contact_name">>,
       <<"phone", "contact_phone">>, <<"company", "business_name">>,
       <<"subject", "subject">>, <<"message", "full_message">>,
       <<"priority", "priority">>, <<"ticket_type", "ticket_type">>,
       <<"tags", "tags">> >>
CustomSources ==
    {"equipment_brand", "equipment_model", "serial_number", "store_location",
     "repair_date", "repair_time", "internal_ticket_id"}

\* The field is present in the mapping and not empty
Given(source, key) ==
    key \in DOMAIN source /\ source[key] # <<>> /\ source[key] # None

GivenAtTopLevel(form, internal) ==
    \E i \in 1..Len(TopLevelSources) :
        TopLevelSources[i][2] = internal /\ Given(form, TopLevelSources[i][1])

GivenInCustomFields(form, internal) ==
    internal \in CustomSources /\ Given(Get(form, "custom_fields", EmptyDict), internal)

\* The precedence of the three steps, given what the structured message yields
PrecedenceHolds(form, mapped, extracted) ==
    /\ \A k \in CustomSources :
          GivenInCustomFields(form, k)
             => k \in DOMAIN mapped /\ mapped[k] = form["custom_fields"][k]
    /\ \A i \in 1..Len(TopLevelSources) :
          Given(form, TopLevelSources[i][1])
             => /\ TopLevelSources[i][2] \in DOMAIN mapped
                /\ mapped[TopLevelSources[i][2]] = form[TopLevelSources[i][1]]
    /\ \A k \in DOMAIN extracted \ {"user_profile_password"} :
          (~GivenAtTopLevel(form, k) /\ ~GivenInCustomFields(form, k))
             => k \in DOMAIN mapped /\ mapped[k] = extracted[k]

\* C25: for every field other than the password, a non-empty custom field
\* wins over a non-empty top-level field, which wins over the value read from
\* the structured message; a field absent or empty at a later step leaves the
\* earlier value standing.
C25_MappingPrecedence ==
    (map_pc = "done" /\ ~map_raised)
        => PrecedenceHolds(form_data, mapped_data,
                           IF Contains(Marker, Get(form_data, "message", <<>>))
                           THEN extract_from_structured_message(form_data["message"])
                           ELSE EmptyDict)

\* C25's case: the message names contact, email and brand; the email is given
\* at top level, the brand in custom_fields, the name nowhere else
C25_Witness ==
    /\ map_pc = "done"
    /\ ~map_raised
    /\ Get(form_data, "message", <<>>) = ContactMessage
    /\ Get(form_data, "email", <<>>) = <<"a","@","b",".","c","o">>
    /\ "name" \notin DOMAIN form_data
    /\ Given(Get(form_data, "custom_fields", EmptyDict), "equipment_brand")
    /\ mapped_data["contact_email"] = <<"a","@","b",".","c","o">>
    /\ mapped_data["contact_name"] = <<"M","a","x">>
    /\ mapped_data["equipment_brand"] = <<"H","P">>


-----------------------------------------------------------------------------
(* Further claims about the extractor and the formatter (SpecRT) *)

AccumulatingSections ==
    {<<"f","a","u","l","t","_","d","e","s","c","r","i","p","t","i","o","n">>, <<"a","d","d","i","t","i","o","n","a","l","_","c","o","m","m","e","n","t","s">>, <<"a","c","c","e","s","s","o","r","i","e","s","_","i","n","c","l","u","d","e","d">>}

\* A section header: an upper-case line that ends with a colon
IsHeaderLine(line) == EndsWith(line, <<":">>) /\ PyIsUpper(line)

\* The lines of the three accumulating sections, read as stated: with the
\* state <<i, section, accumulated, indexes>>, every non-blank line that is no
\* header and stands in one of the sections is added to the section's field
RECURSIVE StatedSectionLines(_, _)
StatedSectionLines(lines, state) ==
    IF state[1] > Len(lines) THEN <<state[3], state[4]>>
    ELSE LET line == PyStrip(lines[state[1]])
         IN  IF line = <<>>
             THEN StatedSectionLines(lines, <<state[1] + 1, state[2], state[3], state[4]>>)
             ELSE IF IsHeaderLine(line)
             THEN StatedSectionLines(lines,
                      <<state[1] + 1, ReplaceSpace(PyLower(Take(line, Len(line) - 1))),
                        state[3], state[4]>>)
             ELSE IF state[2] \in AccumulatingSections
             THEN StatedSectionLines(lines,
                      <<state[1] + 1, state[2],
                        IF state[2] = <<"f","a","u","l","t","_","d","e","s","c","r","i","p","t","i","o","n">>
                        THEN Accumulate(state[3], "fault_description", <<" ">>, line)
                        ELSE IF state[2] = <<"a","d","d","i","t","i","o","n","a","l","_","c","o","m","m","e","n","t","s">>
                        THEN Accumulate(state[3], "additional_comments", <<" ">>, line)
                        ELSE Accumulate(state[3], "accessories", <<","," ">>, line),
                        state[4] \cup {state[1]}>>)
             ELSE StatedSectionLines(lines, <<state[1] + 1, state[2], state[3], state[4]>>)

AccumulatedFields == {"fault_description", "additional_comments", "accessories"}

\* What the extractor reads from the lines with the given ones blanked
ExtractWithout(lines, indexes) ==
    ExtractLoop([i \in 1..Len(lines) |-> IF i \in indexes THEN <<>> ELSE lines[i]],
                <<1, None, EmptyDict>>)

\* The extracted record agrees with the stated reading <<accumulated, indexes>>
AccumulationHolds(lines, extracted, stated) ==
    /\ \A k \in AccumulatedFields :
          /\ k \in DOMAIN extracted <=> k \in DOMAIN stated[1]
          /\ k \in DOMAIN stated[1] => extracted[k] = stated[1][k]
    /\ \A k \in DOMAIN extracted \ AccumulatedFields :
          /\ k \in DOMAIN ExtractWithout(lines, stated[2])
          /\ extracted[k] = ExtractWithout(lines, stated[2])[k]

\* C26: every non-blank line that is no header and stands in a FAULT
\* DESCRIPTION, ADDITIONAL COMMENTS or ACCESSORIES INCLUDED section is added,
\* in input order, to the section's field (joined by a space, or by a comma
\* for accessories), and changes no other field.
C26_SectionLinesAccumulated ==
    rt_pc = "done"
        => AccumulationHolds(PySplit(rt_text, "\n"), rt_extracted,
                             StatedSectionLines(PySplit(rt_text, "\n"),
                                                <<1, None, EmptyDict, {}>>))

\* The record holds a value for the key that is not empty after trimming
Present(record, key) ==
    /\ key \in DOMAIN record
    /\ record[key] # None
    /\ PyStrip(PyStr(record[key])) # <<>>

\* The blocks of the text other than ACCESSORIES INCLUDED follow the record:
\* each is there if and only if its value is present, and the password is
\* shown as given
OtherBlocksFollowRecord ==
    /\ Contains(<<"A","D","D","I","T","I","O","N","A","L"," ","C","O","M","M","E","N","T","S",":","\n">>, rt_text)
          <=> Present(rt_record, "additional_comments")
    /\ Contains(<<"U","S","E","R"," ","A","C","C","O","U","N","T",":","\n">>, rt_text)
          <=> (Present(rt_record, "user_profile_name")
               \/ Present(rt_record, "user_profile_password"))
    /\ Present(rt_record, "user_profile_password")
          => Contains(<<"\n","P","a","s","s","w","o","r","d",":"," ">>
                      \o PyStrip(PyStr(rt_record["user_profile_password"])) \o <<"\n">>,
                      rt_text)
    /\ Contains(<<"I","N","T","E","R","N","A","L"," ","R","E","F","E","R","E","N","C","E",":","\n">>, rt_text)
          <=> Present(rt_record, "internal_ticket_id")
    /\ rt_text = format_ticket_description_clean(rt_record)

\* C29, as stated: each optional block is in the text if and only if its value
\* is present and non-empty after trimming; the text is determined by the
\* record, which is as it was.
C29_OptionalBlocks ==
    rt_pc \in {"extract", "done"}
        => /\ Contains(<<"A","C","C","E","S","S","O","R","I","E","S"," ","I","N","C","L","U","D","E","D",":","\n">>, rt_text)
                 <=> Present(rt_record, "accessories")
           /\ OtherBlocksFollowRecord

\* C29, amended: the same, with ACCESSORIES INCLUDED in the text if and only
\* if accessories is present, non-empty after trimming and not the text
\* `None specified`.
C29_OptionalBlocksAmended ==
    rt_pc \in {"extract", "done"}
        => /\ Contains(<<"A","C","C","E","S","S","O","R","I","E","S"," ","I","N","C","L","U","D","E","D",":","\n">>, rt_text)
                 <=> /\ Present(rt_record, "accessories")
                     /\ PyStrip(PyStr(rt_record["accessories"])) # <<"N","o","n","e"," ","s","p","e","c","i","f","i","e","d">>
           /\ OtherBlocksFollowRecord

\* C29's case: accessories of blanks only and an internal ticket id that is
\* null give neither block, while the account block shows the password
C29_Witness ==
    /\ rt_pc = "extract"
    /\ Get(rt_record, "accessories", <<>>) = <<" "," ">>
    /\ Get(rt_record, "internal_ticket_id", <<>>) = None
    /\ "user_profile_name" \notin DOMAIN rt_record
    /\ Present(rt_record, "user_profile_password")
    /\ ~Contains(<<"A","C","C","E","S","S","O","R","I","E","S"," ","I","N","C","L","U","D","E","D",":">>, rt_text)
    /\ ~Contains(<<"I","N","T","E","R","N","A","L"," ","R","E","F","E","R","E","N","C","E",":">>, rt_text)
    /\ Contains(<<"U","S","E","R"," ","A","C","C","O","U","N","T",":","\n","P","a","s","s","w","o","r","d",":"," ","s","3","c","r","e","t","\n">>, rt_text)
-----------------------------------------------------------------------------
(* Claims about the order and number of the external calls (SpecTicketFair) *)

\* The run passed validation: it is past its first step and not rejected there
PassedValidation ==
    tk_pc # "validate" /\ Validate(tk_record) = NoResult

\* In every state: contact resolution precedes the submissions and is made
\* once, and there are at most two submissions
CallsBounded ==
    /\ contact_calls \in {0, 1}
    /\ Len(handed) <= 2
    /\ Len(posted) <= Len(handed)
    /\ handed # <<>> => contact_calls = 1
    /\ tk_pc \in {"submit", "fallback"} => contact_calls = 1
    /\ tk_pc = "fallback" => Len(handed) = 1
    /\ (tk_pc = "done" /\ PassedValidation)
          => contact_calls = 1 /\ Len(handed) \in {1, 2}

\* In every step: contact resolution only before any submission, one
\* submission at a time, and the second only after a failed first
CallsInOrder ==
    /\ contact_calls' # contact_calls
          => handed = <<>> /\ handed' = <<>> /\ contact_calls' = 1
    /\ Len(handed') \in {Len(handed), Len(handed) + 1}
    /\ Len(handed') = 2 /\ Len(handed) = 1
          => ~tk_result.success /\ tk_result # NoResult

\* C27: whenever the validation passes, the contact is resolved exactly once
\* and before any ticket submission, a second submission happens only after
\* the first has failed, there are never more than two, and the run ends
\* with a result.
C27_CallsOrderedBoundedTerminating ==
    /\ []CallsBounded
    /\ [][CallsInOrder]_vars
    /\ (tk_pc = "validate") ~> (tk_pc = "done" /\ tk_result # NoResult)

\* C27's case: a finished run with one contact resolution and two submissions
C27_Witness ==
    /\ tk_pc = "done"
    /\ contact_calls = 1
    /\ Len(handed) = 2
    /\ tk_result # NoResult

-----------------------------------------------------------------------------
(* Claims about a failed contact resolution (SpecTicket) *)

\* The contact write was answered without an id
AnswerWithoutId(write) ==
    "id" \notin DOMAIN write.json \/ write.json["id"] = 0

\* Contact resolution was made and failed: the search or the write raised or
\* timed out, the write was answered with another status than 200 or 201, or
\* its answer carries no id
ContactResolutionFailed ==
    /\ contact_calls = 1
    /\ \/ contact_io.search \in SearchFailures
       \/ contact_io.write.raises
       \/ contact_io.write.status \notin {200, 201}
       \/ AnswerWithoutId(contact_io.write)

\* The result create_freshdesk_ticket makes of the first payload
FirstResult ==
    IF LocalRefusal(FRESHDESK_CONFIGURED, handed[1]) # NoResult
    THEN LocalRefusal(FRESHDESK_CONFIGURED, handed[1])
    ELSE ResultOfAnswer(answers[1])

\* C28: after a failed contact resolution the run goes on to the first
\* submission, whose payload carries the email and the name, no second
\* payload is built, and the result of the first submission is returned.
C28_ContactFailureNotFatal ==
    ContactResolutionFailed
        => /\ tk_pc \in {"submit", "fallback", "done"}
           /\ tk_pc \in {"fallback", "done"}
                 => /\ Len(handed) = 1
                    /\ handed[1] = ticket_data_v1(tk_record)
                    /\ handed[1]["email"] = tk_email(tk_record)
                    /\ handed[1]["name"] = Take(tk_customer(tk_record), NameLimit)
                    /\ "requester_id" \notin DOMAIN handed[1]
                    /\ tk_result = FirstResult

\* C28's case: the contact write was refused, the first submission failed
\* and the run ended with that failure
C28_Witness ==
    /\ tk_pc = "done"
    /\ contact_io.search = "found"
    /\ contact_io.write.status = 400
    /\ "id" \in DOMAIN contact_io.write.json
    /\ Len(handed) = 1
    /\ ~tk_result.success

-----------------------------------------------------------------------------
(* Claims about retry_api_call (SpecRetryFair) *)

\* Every call before the last raised an Exception
EarlierCallsRaised ==
    \A i \in 1..(Len(outcomes) - 1) : outcomes[i].kind = "Exception"

\* All calls made so far raised
AllCallsRaised == \A i \in 1..Len(outcomes) : outcomes[i].kind # "return"

\* The waits made so far are delay*1, delay*2, ... in this order
LinearBackoff == sleeps = [k \in 1..Len(sleeps) |-> delay * k]

\* One wait after each failed call but the last
WaitsBetweenCalls ==
    /\ retry_pc = "call" => Len(sleeps) = Len(outcomes)
    /\ (retry_pc \in {"sleep", "done"} /\ outcomes # <<>>)
          => Len(sleeps) = Len(outcomes) - 1

\* Once finished: the value of the first call that did not raise is returned
ReturnsFirstSuccess ==
    (retry_pc = "done" /\ outcomes # <<>>
        /\ outcomes[Len(outcomes)].kind = "return")
        => retry_result = Returned(outcomes[Len(outcomes)].value)

\* The contract as stated: at most max_retries calls, the first success ends
\* the run and is returned, linear waits between the calls and none after
\* the last, and a function that keeps raising is called max_retries times
\* and its last exception is raised
RetryContractStated ==
    max_retries >= 1
        => /\ Len(outcomes) <= max_retries
           /\ EarlierCallsRaised
           /\ LinearBackoff
           /\ WaitsBetweenCalls
           /\ ReturnsFirstSuccess
           /\ (retry_pc = "done" /\ AllCallsRaised)
                 => /\ Len(outcomes) = max_retries
                    /\ retry_result = RaisedOut(outcomes[Len(outcomes)].value)

\* The same with a delay that is not negative and a function that raises
\* nothing but Exceptions; what is not an Exception is raised at once
RetryContractAmended ==
    (max_retries >= 1 /\ delay >= 0)
        => /\ Len(outcomes) <= max_retries
           /\ EarlierCallsRaised
           /\ LinearBackoff
           /\ WaitsBetweenCalls
           /\ ReturnsFirstSuccess
           /\ (retry_pc = "done" /\ AllCallsRaised)
                 => /\ retry_result = RaisedOut(outcomes[Len(outcomes)].value)
                    /\ \/ Len(outcomes) = max_retries
                       \/ outcomes[Len(outcomes)].kind = "BaseException"

\* C30 as stated: for max_retries >= 1 and any delay, retry_api_call calls
\* func at most max_retries times, returns the first result, waits delay*k
\* after the k-th failed call and not after the last, raises the last
\* exception once max_retries calls have raised, and terminates.
C30_RetryContract ==
    /\ []RetryContractStated
    /\ (retry_pc = "call") ~> (retry_pc = "done")

\* C30 as the code has it: the same for max_retries >= 1 and delay >= 0,
\* where an exception that is no Exception ends the run at once.
C30_RetryContractAmended ==
    /\ []RetryContractAmended
    /\ (retry_pc = "call") ~> (retry_pc = "done" /\ retry_result # Pending)

\* C30's case: three calls that raised, waits of 2 and 4, the last exception
\* raised
C30_Witness ==
    /\ retry_pc = "done"
    /\ max_retries = 3
    /\ delay = 2
    /\ Len(outcomes) = 3
    /\ AllCallsRaised
    /\ sleeps = <<2, 4>>
    /\ retry_result = RaisedOut("E2")

-----------------------------------------------------------------------------
(* Claims about the responses to a failed request (SpecApi) *)

\* The handler runs in production mode
ProductionMode == FLASK_DEBUG # "True"

\* The response carries the text of the exception raised while handling
CarriesExceptionText ==
    /\ api_fault # ""
    /\ api_response.error \in {api_fault, "Unknown error: " \o api_fault}

\* C21: in production mode the response of /api/tickets and of
\* /api/tickets/<id> never carries the text of an exception raised while
\* handling; such a request is answered with 500 and a generic body.
C21_NoExceptionTextInProduction ==
    (api_pc = "done" /\ ProductionMode /\ api_fault # "")
        => /\ api_response.status = 500
           /\ ~CarriesExceptionText
====
